---------------------------- MODULE Spec2Model ----------------------------
(***************************************************************************)
(* BadgerSwap chat: the thread store adapter, the message log, the offer   *)
(* sub-protocol (features/chat/api.ts), the ChatScreen callers of the      *)
(* offer operations and the notification detector                          *)
(* (useMessageNotifications.ts), as a state machine.                       *)
(*                                                                         *)
(* Identifier strings are sequences of UTF-16 code units (naturals), so    *)
(* that the JavaScript "<" on strings is the lexicographic order computed  *)
(* here.  Message texts and previews are sequences of tokens (pieces of    *)
(* text); a template literal is the concatenation of its pieces.           *)
(***************************************************************************)
EXTENDS Integers, Sequences, FiniteSets, TLC

VARIABLES
    threads,         \* collection "chats": thread id -> document or NoDoc
    msgs,            \* subcollection "messages": thread id -> log, ordered by createdAt
    listings,        \* collection "listings": messagesCount of the listing
    now,             \* the clock (serverTimestamp / Date.now), in ticks
    calls,           \* the async api calls in flight, each at an await
    nCalls,          \* number of calls started so far
    last,            \* the call that completed last, with its outcome
    applied,         \* history: ids of the appended messages whose thread update was written
    owed,            \* history: per thread and user, appends since the user's last clearUnread
    screen,          \* ChatScreen: the mounted screen's local state
    prefs,           \* collection "users": notificationPreferences.messages per user
    detector,        \* useMessageNotifications: its refs and subscriptions
    toasts,          \* the toasts shown so far
    probe            \* inputs and output of a pure function under test

storeVars == <<threads, msgs, listings>>
callVars == <<calls, nCalls, last>>
histVars == <<applied, owed>>
notifVars == <<prefs, detector, toasts>>
vars == <<threads, msgs, listings, now, calls, nCalls, last, applied, owed,
          screen, prefs, detector, toasts, probe>>

(***************************************************************************)
(* Values                                                                  *)
(***************************************************************************)
Missing == "undefined"             \* an absent scalar field (type, amount, offerStatus)
MissingStr == <<"<undefined>">>    \* an absent text field (text, photoUrl)
NoDoc == [exists |-> FALSE]        \* a document that does not exist
NoOffer == [set |-> FALSE]         \* the thread field acceptedOffer, absent
NoTime == 0                        \* an absent timestamp; the clock starts at 1
Underscore == 95                   \* the code unit of "_"

EmptyStr == <<>>
WhiteSpace == {" ", "\t", "\n"}

\* JavaScript String.prototype.trim on a token string.
RECURSIVE TrimLeft(_)
TrimLeft(s) ==
    IF s = <<>> THEN <<>>
    ELSE IF Head(s) \in WhiteSpace THEN TrimLeft(Tail(s)) ELSE s

RECURSIVE TrimRight(_)
TrimRight(s) ==
    IF s = <<>> THEN <<>>
    ELSE IF s[Len(s)] \in WhiteSpace THEN TrimRight(SubSeq(s, 1, Len(s) - 1)) ELSE s

\* The text taken as it is.
TrimNothing(s) == s

Trim(s) == TrimRight(TrimLeft(s))

\* JavaScript truthiness of a string that may be absent.
Truthy(s) == s /= MissingStr /\ s /= EmptyStr

(***************************************************************************)
(* Thread identity                                                         *)
(***************************************************************************)
\* JavaScript a < b on strings: code units compared left to right, a proper
\* prefix is smaller.
RECURSIVE StrLess(_, _)
StrLess(a, b) ==
    IF b = <<>> THEN FALSE
    ELSE IF a = <<>> THEN TRUE
    ELSE IF Head(a) /= Head(b) THEN Head(a) < Head(b)
    ELSE StrLess(Tail(a), Tail(b))

makeThreadIdUnordered(buyerId, sellerId) == buyerId \o <<Underscore>> \o sellerId

makeThreadId(buyerId, sellerId) ==
    LET a == IF StrLess(buyerId, sellerId) THEN buyerId ELSE sellerId
        b == IF StrLess(buyerId, sellerId) THEN sellerId ELSE buyerId
    IN  a \o <<Underscore>> \o b

\* getOrCreateThread's derived document id.
ThreadIdOf(buyerId, sellerId, itemId) ==
    LET baseId == makeThreadId(buyerId, sellerId)
    IN  baseId \o <<Underscore>> \o itemId

(***************************************************************************)
(* Documents                                                               *)
(***************************************************************************)
\* setDoc's payload in getOrCreateThread.
NewThreadDoc(ctx, threadId, ts) ==
    [ exists         |-> TRUE,
      threadId       |-> threadId,
      participants   |-> <<ctx.buyerId, ctx.sellerId>>,
      itemId         |-> ctx.itemId,
      itemName       |-> ctx.itemName,
      sellerId       |-> ctx.sellerId,
      buyerId        |-> ctx.buyerId,
      sellerName     |-> ctx.sellerName,
      sellerInitials |-> ctx.sellerInitials,
      buyerName      |-> ctx.buyerName,
      buyerInitials  |-> ctx.buyerInitials,
      lastMessage    |-> EmptyStr,
      timestamp      |-> ts,
      unread         |-> [u \in {ctx.buyerId, ctx.sellerId} |-> 0],
      acceptedOffer  |-> NoOffer ]

\* The refresh written as the creation is: the whole document again.
RefreshAsCreate(d, ctx, ts) == NewThreadDoc(ctx, d.threadId, ts)

\* updateDoc's payload in the refresh branch of getOrCreateThread.
RefreshThread(d, ctx, ts) ==
    [d EXCEPT !.itemId = ctx.itemId, !.itemName = ctx.itemName, !.timestamp = ts]

\* data.participants.find((p) => p !== senderId); undefined is the empty id.
RECURSIVE FindOther(_, _)
FindOther(participants, senderId) ==
    IF participants = <<>> THEN EmptyStr
    ELSE IF Head(participants) /= senderId THEN Head(participants)
    ELSE FindOther(Tail(participants), senderId)

\* const other = recipientId || data.participants.find(...)
ResolveRecipient(data, senderId, recipientId) ==
    IF recipientId /= EmptyStr THEN recipientId
    ELSE FindOther(data.participants, senderId)

\* The counter written without reading the stored one.
UnreadBumpFromZero(data, other) == 1

\* (data.unread?.[other] || 0) + 1
UnreadBump(data, other) ==
    (IF other \in DOMAIN data.unread THEN data.unread[other] ELSE 0) + 1

\* The whole unread map written with the one entry in it.
SetUnreadOnly(unread, userId, n) == [k \in {userId} |-> n]

\* The field path `unread.${userId}` written with value n.
SetUnread(unread, userId, n) ==
    [k \in (DOMAIN unread) \cup {userId} |-> IF k = userId THEN n ELSE unread[k]]

\* addDoc's payloads.
TextMessage(senderId, text, ts) ==
    [ senderId |-> senderId, text |-> text, photoUrl |-> MissingStr,
      createdAt |-> ts, withdrawn |-> FALSE,
      type |-> Missing, amount |-> Missing, offerStatus |-> Missing,
      reactions |-> <<>> ]

PhotoMessage(senderId, downloadUrl, ts) ==
    [ senderId |-> senderId, text |-> MissingStr, photoUrl |-> downloadUrl,
      createdAt |-> ts, withdrawn |-> FALSE,
      type |-> Missing, amount |-> Missing, offerStatus |-> Missing,
      reactions |-> <<>> ]

\* The offer appended as a plain message.
OfferAsText(senderId, amount, ts) == TextMessage(senderId, MissingStr, ts)

OfferMessage(senderId, amount, ts) ==
    [ senderId |-> senderId, text |-> MissingStr, photoUrl |-> MissingStr,
      createdAt |-> ts, withdrawn |-> FALSE,
      type |-> "offer", amount |-> amount, offerStatus |-> "pending",
      reactions |-> <<>> ]

\* The previews written to lastMessage.
PhotoPreview == <<"[Photo]">>
OfferPreview(amount) == <<"Offer: $", ToString(amount)>>
AcceptedPreview(amount) == <<"Offer accepted ($", ToString(amount), ")">>
WithdrawnPreview == <<"Message withdrawn">>
DeclinedText == <<"Offer declined">>

\* The thread update that follows an append.
AppendThreadUpdate(d, preview, other, data, ts) ==
    [d EXCEPT !.lastMessage = preview,
              !.timestamp = ts,
              !.unread = SetUnread(d.unread, other, UnreadBump(data, other))]

\* The thread update of acceptOffer.
AcceptThreadUpdate(d, buyerId, amount, ts) ==
    [d EXCEPT !.acceptedOffer =
                  [set |-> TRUE, buyerId |-> buyerId, amount |-> amount, acceptedAt |-> ts],
              !.lastMessage = AcceptedPreview(amount),
              !.timestamp = ts]

(***************************************************************************)
(* Bounds and inputs                                                       *)
(***************************************************************************)
MaxCalls == 3        \* api calls started in one behaviour, interleaved runs
MaxInFlight == 2     \* api calls in flight at once, interleaved runs
MaxSeqCalls == 3     \* api calls started in one behaviour, sequential runs
MaxIdLen == 2        \* length of the identifiers the thread id is derived from

Buyer == <<98>>      \* "b"
Seller == <<97>>     \* "a"
Buyer2 == <<99>>     \* "c", a second buyer of the same listing
Item == <<49>>       \* "1"
Users == {Buyer, Seller, Buyer2}
Participants == {Buyer, Seller}      \* the two participants of T1

Ctx(buyerId, buyerName, itemName) ==
    [ itemId |-> Item, itemName |-> itemName,
      sellerId |-> Seller, buyerId |-> buyerId,
      sellerName |-> <<"Sam">>, sellerInitials |-> <<"S">>,
      buyerName |-> buyerName, buyerInitials |-> <<"B">> ]

\* The conversation under test, opened with the listing's name before and
\* after the seller renamed it.
Contexts == { Ctx(Buyer, <<"Bo">>, <<"Bike">>), Ctx(Buyer, <<"Bo">>, <<"Bike", " ", "(red)">>) }
T1 == ThreadIdOf(Buyer, Seller, Item)
T2 == ThreadIdOf(Buyer2, Seller, Item)
ThreadIds == {T1, T2}
ScreenUsers == {Seller}                \* who opens the ChatScreen under test
SendThreads == {T1}                  \* the thread the api calls are made on

Texts == { <<"hi">>, <<" ">> }
Amounts == { 50, -5 }         \* sendOffer takes any number
Uris == { <<"file://p.jpg">> }
Reactions == { "like", "laugh" }     \* the reaction tokens of the picker
IdChars == {48, 65, 97}              \* "0", "A", "a"
IdStrings == UNION { [1..n -> IdChars] : n \in 1..MaxIdLen }
DurableUrl(localUri) == <<"https://cdn/">> \o localUri     \* uploadImageAsync's result

NoCall == [op |-> "none"]
NoPre == [kept |-> FALSE]
NoScreen == [ mounted |-> FALSE, user |-> EmptyStr, buyerId |-> EmptyStr,
              sellerId |-> EmptyStr, partnerId |-> EmptyStr, messages |-> <<>> ]

(***************************************************************************)
(* Async calls: a call in flight waits at an await; its record holds the   *)
(* function's locals.                                                      *)
(***************************************************************************)
Snapshot == [kept |-> TRUE, threads |-> threads, msgs |-> msgs, listings |-> listings]

\* serverTimestamp(): the store stamps a write with its clock, and no two
\* writes get the same stamp.
Stamped == now + 1

\* How the callers make their calls. Awaited: each call is awaited before the
\* next one is made. Observed: awaited, and the store as the call found it is
\* kept with the call, for its post-conditions. Interleaved: calls are made
\* while others are suspended at their awaits.
Awaited == "awaited"
Observed == "observed"
Interleaved == "interleaved"

CanStart(mode) ==
    IF mode /= Interleaved
    THEN /\ DOMAIN calls = {}
         /\ nCalls < MaxSeqCalls
         /\ screen.mounted => screen.messages = msgs[T1]
    ELSE Cardinality(DOMAIN calls) < MaxInFlight /\ nCalls < MaxCalls

NewCall(mode, op, pc, tid, user, arg, data, other) ==
    [ op |-> op, pc |-> pc, tid |-> tid, user |-> user, arg |-> arg,
      data |-> data, other |-> other, msgId |-> 0,
      pre |-> IF mode = Observed THEN Snapshot ELSE NoPre ]

Completed(c, outcome, n) ==
    [ op |-> c.op, at |-> c.pc, tid |-> c.tid, user |-> c.user, arg |-> c.arg,
      other |-> c.other, msgId |-> c.msgId, outcome |-> outcome, pre |-> c.pre, n |-> n ]

\* The call suspends at its next await.
Suspend(id, c) ==
    /\ calls' = [i \in (DOMAIN calls) \cup {id} |-> IF i = id THEN c ELSE calls[i]]
    /\ UNCHANGED last

\* The call returns ("ok", "noop") or throws ("error") to its caller; the
\* caller's record keeps where in the function it did ("start": before the
\* first await).
Return(id, c, outcome) ==
    /\ calls' = [i \in (DOMAIN calls) \ {id} |-> calls[i]]
    /\ last' = IF c.pre = NoPre THEN last
               ELSE Completed(c, outcome, IF id \in DOMAIN calls THEN nCalls ELSE nCalls + 1)

\* The record a new call is kept in while it is in flight.
FreeSlot == CHOOSE i \in 1..(Cardinality(DOMAIN calls) + 1) : i \notin DOMAIN calls

AtPc(id, pc) == id \in DOMAIN calls /\ calls[id].pc = pc

(***************************************************************************)
(* getOrCreateThread                                                       *)
(***************************************************************************)
\* Lines 70-77: the id is derived and getDoc reads the thread.
StartGetOrCreate(mode) ==
    \E ctx \in Contexts :
    /\ CanStart(mode)
    /\ LET threadId == ThreadIdOf(ctx.buyerId, ctx.sellerId, ctx.itemId)
           c == NewCall(mode, "getOrCreateThread",
                        IF threads[threadId].exists THEN "refresh" ELSE "create",
                        threadId, ctx.buyerId, ctx, NoDoc, EmptyStr)
       IN  /\ nCalls' = nCalls + 1
           /\ Suspend(FreeSlot, c)
    /\ UNCHANGED <<storeVars, now, histVars, screen, notifVars, probe>>

\* Lines 78-85: setDoc writes the whole document, whatever is stored.
CreateWrite(c) == [threads EXCEPT ![c.tid] = NewThreadDoc(c.arg, c.tid, now)]

GocCreate ==
    \E id \in DOMAIN calls, ok \in BOOLEAN :
    /\ AtPc(id, "create")
    /\ LET c == calls[id] IN
       IF ok
       THEN /\ threads' = CreateWrite(c)
            /\ now' = Stamped
            /\ Suspend(id, [c EXCEPT !.pc = "listing"])
       ELSE /\ UNCHANGED <<threads, now>>
            /\ Return(id, c, "error")
    /\ UNCHANGED <<msgs, listings, nCalls, histVars, screen, notifVars, probe>>

\* The listing's messagesCount incremented outside the try.
GocListingThrows ==
    \E id \in DOMAIN calls, ok \in BOOLEAN :
    /\ AtPc(id, "listing")
    /\ listings' = IF ok THEN listings + 1 ELSE listings
    /\ Return(id, calls[id], IF ok THEN "ok" ELSE "error")
    /\ UNCHANGED <<threads, msgs, now, nCalls, histVars, screen, notifVars, probe>>

\* Lines 87-90 and 99: the listing's messagesCount, in a try with an empty catch.
GocListing ==
    \E id \in DOMAIN calls, ok \in BOOLEAN :
    /\ AtPc(id, "listing")
    /\ listings' = IF ok THEN listings + 1 ELSE listings
    /\ Return(id, calls[id], "ok")
    /\ UNCHANGED <<threads, msgs, now, nCalls, histVars, screen, notifVars, probe>>

\* Lines 92-96 and 99: updateDoc of the existing thread.
GocRefresh ==
    \E id \in DOMAIN calls, ok \in BOOLEAN :
    /\ AtPc(id, "refresh")
    /\ LET c == calls[id] IN
       IF ok /\ threads[c.tid].exists
       THEN /\ threads' = [threads EXCEPT ![c.tid] = RefreshThread(@, c.arg, now)]
            /\ now' = Stamped
            /\ Return(id, c, "ok")
       ELSE /\ UNCHANGED <<threads, now>>
            /\ Return(id, c, "error")
    /\ UNCHANGED <<msgs, listings, nCalls, histVars, screen, notifVars, probe>>

(***************************************************************************)
(* sendMessage, sendPhoto, sendOffer                                       *)
(***************************************************************************)
Arg(text, uri, amount, recipientId, messageId, buyerId) ==
    [ text |-> text, uri |-> uri, url |-> MissingStr, amount |-> amount,
      recipientId |-> recipientId, messageId |-> messageId, buyerId |-> buyerId,
      reaction |-> Missing ]

\* What ChatScreen passes as recipientId: its partnerId state, "" until the
\* thread document has been loaded.
RecipientArgs(tid, senderId) ==
    {EmptyStr} \cup
    (IF threads[tid].exists THEN {FindOther(threads[tid].participants, senderId)} ELSE {})

\* The getDoc of the thread with nothing checked after it.
ReadThreadUnchecked(mode, op, pcNext, tid, senderId, arg) ==
    Suspend(FreeSlot, NewCall(mode, op, pcNext, tid, senderId, arg, threads[tid],
                              arg.recipientId))

\* The getDoc of the thread and the two early returns after it
\* (sendMessage 105-111, sendPhoto 132-138, sendOffer 161-167).
ReadThread(mode, op, pcNext, tid, senderId, arg) ==
    LET data == threads[tid]
        other == IF data.exists THEN ResolveRecipient(data, senderId, arg.recipientId)
                 ELSE EmptyStr
        c == NewCall(mode, op, pcNext, tid, senderId, arg, data, other)
    IN  IF (~data.exists) \/ other = EmptyStr
        THEN Return(FreeSlot, [c EXCEPT !.pc = "read"], "noop")
        ELSE Suspend(FreeSlot, c)

StartSendMessage(mode) ==
    \E tid \in SendThreads, senderId \in Participants, text \in Texts :
    \E recipientId \in RecipientArgs(tid, senderId) :
    /\ CanStart(mode)
    /\ nCalls' = nCalls + 1
    /\ LET arg == Arg(text, MissingStr, Missing, recipientId, 0, EmptyStr) IN
       IF Trim(text) = EmptyStr
       THEN Return(FreeSlot,
                   NewCall(mode, "sendMessage", "start", tid, senderId, arg, NoDoc, EmptyStr),
                   "noop")
       ELSE ReadThread(mode, "sendMessage", "add", tid, senderId, arg)
    /\ UNCHANGED <<storeVars, now, histVars, screen, notifVars, probe>>

StartSendPhoto(mode) ==
    \E tid \in SendThreads, senderId \in Participants, localUri \in Uris :
    \E recipientId \in RecipientArgs(tid, senderId) :
    /\ CanStart(mode)
    /\ nCalls' = nCalls + 1
    /\ LET arg == Arg(MissingStr, localUri, Missing, recipientId, 0, EmptyStr) IN
       IF localUri = EmptyStr
       THEN Return(FreeSlot,
                   NewCall(mode, "sendPhoto", "start", tid, senderId, arg, NoDoc, EmptyStr),
                   "noop")
       ELSE ReadThread(mode, "sendPhoto", "upload", tid, senderId, arg)
    /\ UNCHANGED <<storeVars, now, histVars, screen, notifVars, probe>>

StartSendOffer(mode) ==
    \E tid \in SendThreads, senderId \in Participants, amount \in Amounts :
    \E recipientId \in RecipientArgs(tid, senderId) :
    /\ CanStart(mode)
    /\ nCalls' = nCalls + 1
    /\ ReadThread(mode, "sendOffer", "add", tid, senderId,
                  Arg(MissingStr, MissingStr, amount, recipientId, 0, EmptyStr))
    /\ UNCHANGED <<storeVars, now, histVars, screen, notifVars, probe>>

\* The upload with its failure swallowed: the append follows with no URL.
PhotoUploadUnchecked ==
    \E id \in DOMAIN calls, ok \in BOOLEAN :
    /\ AtPc(id, "upload")
    /\ LET c == calls[id] IN
       Suspend(id, [c EXCEPT !.pc = "add",
                             !.arg.url = IF ok THEN DurableUrl(c.arg.uri) ELSE EmptyStr])
    /\ UNCHANGED <<storeVars, now, nCalls, histVars, screen, notifVars, probe>>

\* sendPhoto 140: the upload; a failure is thrown to the caller.
PhotoUpload ==
    \E id \in DOMAIN calls, ok \in BOOLEAN :
    /\ AtPc(id, "upload")
    /\ LET c == calls[id] IN
       IF ok
       THEN Suspend(id, [c EXCEPT !.pc = "add", !.arg.url = DurableUrl(c.arg.uri)])
       ELSE Return(id, c, "error")
    /\ UNCHANGED <<storeVars, now, nCalls, histVars, screen, notifVars, probe>>

\* The payload of the addDoc and the preview of the updateDoc that follows.
MessageOf(c) ==
    CASE c.op = "sendMessage" -> TextMessage(c.user, c.arg.text, now)
      [] c.op = "sendPhoto" -> PhotoMessage(c.user, c.arg.url, now)
      [] c.op = "sendOffer" -> OfferMessage(c.user, c.arg.amount, now)
      [] c.op = "declinePress" -> TextMessage(c.user, DeclinedText, now)

PreviewOf(c) ==
    CASE c.op = "sendMessage" -> c.arg.text
      [] c.op = "sendPhoto" -> PhotoPreview
      [] c.op = "sendOffer" -> OfferPreview(c.arg.amount)
      [] c.op = "declinePress" -> DeclinedText

\* History: per thread and user, the appends addressed to the user since the
\* user's last completed clearUnread: those added to the log, and those whose
\* thread update has been written.
NoneOwed == [added |-> 0, written |-> 0]
BumpOwed(tid, other) == [owed EXCEPT ![tid][other].added = @ + 1]
BumpWritten(tid, other) == [owed EXCEPT ![tid][other].written = @ + 1]

\* addDoc (sendMessage 113-120, sendPhoto 141-148, sendOffer 169-178).
AppendAdd ==
    \E id \in DOMAIN calls, ok \in BOOLEAN :
    /\ AtPc(id, "add")
    /\ LET c == calls[id] IN
       IF ok
       THEN /\ msgs' = [msgs EXCEPT ![c.tid] = Append(@, MessageOf(c))]
            /\ owed' = BumpOwed(c.tid, c.other)
            /\ now' = Stamped
            /\ Suspend(id, [c EXCEPT !.pc = "update", !.msgId = Len(msgs[c.tid]) + 1])
       ELSE /\ UNCHANGED <<msgs, owed, now>>
            /\ Return(id, c, "error")
    /\ UNCHANGED <<threads, listings, nCalls, applied, screen, notifVars, probe>>

\* updateDoc of the thread (sendMessage 122-126, sendPhoto 150-154,
\* sendOffer 180-184), computed from the snapshot read at the start.
AppendWrite(c) ==
    [threads EXCEPT ![c.tid] = AppendThreadUpdate(@, PreviewOf(c), c.other, c.data, now)]

AppendUpdate ==
    \E id \in DOMAIN calls, ok \in BOOLEAN :
    /\ AtPc(id, "update")
    /\ LET c == calls[id] IN
       IF ok /\ threads[c.tid].exists
       THEN /\ threads' = AppendWrite(c)
            /\ applied' = applied \cup {<<c.tid, c.msgId>>}
            /\ owed' = BumpWritten(c.tid, c.other)
            /\ now' = Stamped
            /\ Return(id, c, "ok")
       ELSE /\ UNCHANGED <<threads, applied, owed, now>>
            /\ Return(id, c, "error")
    /\ UNCHANGED <<msgs, listings, nCalls, screen, notifVars, probe>>

(***************************************************************************)
(* clearUnread                                                             *)
(***************************************************************************)
ClearWrite(tid, userId) ==
    [threads EXCEPT ![tid].unread = SetUnread(@, userId, 0)]

\* The whole of clearUnread: one updateDoc.
ClearUnreadCall(mode, tid, userId, ok) ==
    LET c == NewCall(mode, "clearUnread", "write", tid, userId,
                     Arg(MissingStr, MissingStr, Missing, EmptyStr, 0, EmptyStr),
                     NoDoc, EmptyStr)
    IN  IF ok /\ threads[tid].exists
        THEN /\ threads' = ClearWrite(tid, userId)
             /\ owed' = [owed EXCEPT ![tid][userId] = NoneOwed]
             /\ Return(FreeSlot, c, "ok")
        ELSE /\ UNCHANGED <<threads, owed>>
             /\ Return(FreeSlot, c, "error")

StartClearUnread(mode) ==
    \E tid \in SendThreads, userId \in Participants, ok \in BOOLEAN :
    /\ CanStart(mode)
    /\ nCalls' = nCalls + 1
    /\ ClearUnreadCall(mode, tid, userId, ok)
    /\ UNCHANGED <<msgs, listings, now, applied, screen, notifVars, probe>>

(***************************************************************************)
(* withdrawMessage                                                         *)
(***************************************************************************)
\* The message marked withdrawn with its content left in place.
WithdrawKeepsContent(log, messageId) == [log EXCEPT ![messageId].withdrawn = TRUE]

\* Lines 298-302: updateDoc of the message. A message's id is its place in
\* the log.
WithdrawWrite(log, messageId) ==
    [log EXCEPT ![messageId].withdrawn = TRUE,
                ![messageId].text = EmptyStr,
                ![messageId].photoUrl = EmptyStr]

\* Lines 304-306: updateDoc of the thread.
WithdrawThreadUpdate(d) == [d EXCEPT !.lastMessage = WithdrawnPreview]

\* Lines 294-302: the function takes the thread and the message id only, and
\* reads neither the caller nor the clock; updateDoc fails on a message that
\* does not exist.
WithdrawCall(mode, tid, messageId, ok) ==
    LET c == NewCall(mode, "withdrawMessage", "withdrawThread", tid, EmptyStr,
                     Arg(MissingStr, MissingStr, Missing, EmptyStr, messageId, EmptyStr),
                     NoDoc, EmptyStr)
    IN  IF ok /\ messageId <= Len(msgs[tid])
        THEN /\ msgs' = [msgs EXCEPT ![tid] = WithdrawWrite(@, messageId)]
             /\ Suspend(FreeSlot, c)
        ELSE /\ UNCHANGED msgs
             /\ Return(FreeSlot, [c EXCEPT !.pc = "withdrawMessage"], "error")

\* withdrawMessage called with any message id of the thread, or with one
\* past its last message.
StartWithdraw(mode) ==
    \E tid \in SendThreads, ok \in BOOLEAN :
    \E messageId \in 1..(Len(msgs[tid]) + 1) :
    /\ CanStart(mode)
    /\ nCalls' = nCalls + 1
    /\ WithdrawCall(mode, tid, messageId, ok)
    /\ UNCHANGED <<threads, listings, now, histVars, screen, notifVars, probe>>

WithdrawThread ==
    \E id \in DOMAIN calls, ok \in BOOLEAN :
    /\ AtPc(id, "withdrawThread")
    /\ LET c == calls[id] IN
       IF ok /\ threads[c.tid].exists
       THEN /\ threads' = [threads EXCEPT ![c.tid] = WithdrawThreadUpdate(@)]
            /\ Return(id, c, "ok")
       ELSE /\ UNCHANGED threads
            /\ Return(id, c, "error")
    /\ UNCHANGED <<msgs, listings, now, nCalls, histVars, screen, notifVars, probe>>

(***************************************************************************)
(* toggleReaction, removeReaction                                          *)
(***************************************************************************)
Null == "null"                     \* the value removeReaction writes

\* The whole reactions map written with the one entry in it.
ReactionReplacesMap(reactions, userId, value) == [k \in {userId} |-> value]

\* The field path `reactions.${userId}` written with a value.
SetReaction(reactions, userId, value) ==
    [k \in (DOMAIN reactions) \cup {userId} |-> IF k = userId THEN value ELSE reactions[k]]

\* The whole of toggleReaction and of removeReaction: one updateDoc of the
\* message, which fails on a message that does not exist.
ReactionCall(mode, op, tid, messageId, userId, value, ok) ==
    LET c == NewCall(mode, op, "write", tid, userId,
                     [Arg(MissingStr, MissingStr, Missing, EmptyStr, messageId, EmptyStr)
                         EXCEPT !.reaction = value],
                     NoDoc, EmptyStr)
    IN  IF ok /\ messageId <= Len(msgs[tid])
        THEN /\ msgs' = [msgs EXCEPT ![tid][messageId].reactions =
                                         SetReaction(@, userId, value)]
             /\ Return(FreeSlot, c, "ok")
        ELSE /\ UNCHANGED msgs
             /\ Return(FreeSlot, c, "error")

StartToggleReaction(mode) ==
    \E tid \in SendThreads, userId \in Participants, reaction \in Reactions, ok \in BOOLEAN :
    \E messageId \in 1..(Len(msgs[tid]) + 1) :
    /\ CanStart(mode)
    /\ nCalls' = nCalls + 1
    /\ ReactionCall(mode, "toggleReaction", tid, messageId, userId, reaction, ok)
    /\ UNCHANGED <<threads, listings, now, histVars, screen, notifVars, probe>>

StartRemoveReaction(mode) ==
    \E tid \in SendThreads, userId \in Participants, ok \in BOOLEAN :
    \E messageId \in 1..(Len(msgs[tid]) + 1) :
    /\ CanStart(mode)
    /\ nCalls' = nCalls + 1
    /\ ReactionCall(mode, "removeReaction", tid, messageId, userId, Null, ok)
    /\ UNCHANGED <<threads, listings, now, histVars, screen, notifVars, probe>>

(***************************************************************************)
(* ChatScreen: the screen of one signed-in participant, mounted on T1      *)
(***************************************************************************)
\* The mount effects (ChatScreen 62-115): the header load reads the
\* thread's fixed fields (buyerId, sellerId, participants), clearUnread is
\* called and the message subscription is started.
ScreenMount(mode) ==
    \E userId \in ScreenUsers, ok \in BOOLEAN :
    /\ ~screen.mounted
    /\ threads[T1].exists
    /\ mode /= Interleaved => DOMAIN calls = {}
    /\ LET d == threads[T1] IN
       screen' = [ mounted |-> TRUE, user |-> userId,
                   buyerId |-> d.buyerId, sellerId |-> d.sellerId,
                   partnerId |-> FindOther(d.participants, userId),
                   messages |-> <<>> ]
    /\ ClearUnreadCall(mode, T1, userId, ok)
    /\ UNCHANGED <<msgs, listings, now, nCalls, applied, notifVars, probe>>

\* subscribeToMessages' callback (api 235-238, ChatScreen 95-112): the
\* whole current log replaces the screen's messages.
MessagesEmit ==
    /\ screen.mounted
    /\ screen.messages /= msgs[T1]
    /\ screen' = [screen EXCEPT !.messages = msgs[T1]]
    /\ UNCHANGED <<storeVars, now, callVars, histVars, notifVars, probe>>

\* renderOffer's condition for showing Accept and Decline (ChatScreen 222).
OfferButtons(i) ==
    /\ screen.mounted
    /\ screen.user = screen.sellerId
    /\ screen.messages[i].type = "offer"
    /\ screen.messages[i].senderId /= screen.user
    /\ screen.messages[i].offerStatus = "pending"

OfferArg(i) ==
    Arg(MissingStr, MissingStr, screen.messages[i].amount, screen.partnerId, i, screen.buyerId)

(***************************************************************************)
(* acceptOffer, declineOffer                                               *)
(***************************************************************************)
\* The decline that also takes the offer out of the log.
DeclineAndWithdraw(tid, messageId) ==
    [msgs EXCEPT ![tid][messageId].offerStatus = "declined",
                 ![tid][messageId].withdrawn = TRUE]

\* declineOffer's updateDoc, with no condition on the stored status.
DeclineWrite(tid, messageId) ==
    [msgs EXCEPT ![tid][messageId].offerStatus = "declined"]

\* The acceptance that leaves the message as it is and sets only the thread.
AcceptWriteSkipped(tid, messageId) == msgs

\* The acceptance that puts the message back in the log.
AcceptWriteRestores(tid, messageId) ==
    [msgs EXCEPT ![tid][messageId].offerStatus = "accepted",
                 ![tid][messageId].withdrawn = FALSE]

\* acceptOffer's first updateDoc, with no condition on the stored status.
AcceptWrite(tid, messageId) ==
    [msgs EXCEPT ![tid][messageId].offerStatus = "accepted"]

\* Accept pressed: acceptOffer(threadId, item.id, buyerId, amt) up to its
\* first await, the update of the message (api 199-205).
AcceptPress(mode) ==
    \E i \in 1..Len(screen.messages), ok \in BOOLEAN :
    /\ OfferButtons(i)
    /\ CanStart(mode)
    /\ nCalls' = nCalls + 1
    /\ LET c == NewCall(mode, "acceptOffer", "acceptThread", T1, screen.user,
                        OfferArg(i), NoDoc, EmptyStr)
       IN  IF ok /\ i \in 1..Len(msgs[T1])
           THEN /\ msgs' = AcceptWrite(T1, i)
                /\ Suspend(FreeSlot, c)
           ELSE /\ UNCHANGED msgs
                /\ Return(FreeSlot, c, "error")
    /\ UNCHANGED <<threads, listings, now, histVars, screen, notifVars, probe>>

\* acceptOffer's second updateDoc, of the thread (api 208-216).
AcceptThread ==
    \E id \in DOMAIN calls, ok \in BOOLEAN :
    /\ AtPc(id, "acceptThread")
    /\ LET c == calls[id] IN
       IF ok /\ threads[c.tid].exists
       THEN /\ threads' = [threads EXCEPT ![c.tid] =
                               AcceptThreadUpdate(@, c.arg.buyerId, c.arg.amount, now)]
            /\ now' = Stamped
            /\ Return(id, c, "ok")
       ELSE /\ UNCHANGED <<threads, now>>
            /\ Return(id, c, "error")
    /\ UNCHANGED <<msgs, listings, nCalls, histVars, screen, notifVars, probe>>

\* Decline pressed (ChatScreen 235-244): declineOffer (api 222-228), then
\* the handler goes on to send "Offer declined".
DeclinePress(mode) ==
    \E i \in 1..Len(screen.messages), ok \in BOOLEAN :
    /\ OfferButtons(i)
    /\ CanStart(mode)
    /\ nCalls' = nCalls + 1
    /\ LET c == NewCall(mode, "declinePress", "declineSend", T1, screen.user,
                        OfferArg(i), NoDoc, EmptyStr)
       IN  IF ok /\ i \in 1..Len(msgs[T1])
           THEN /\ msgs' = DeclineWrite(T1, i)
                /\ Suspend(FreeSlot, c)
           ELSE /\ UNCHANGED msgs
                /\ Return(FreeSlot, c, "error")
    /\ UNCHANGED <<threads, listings, now, histVars, screen, notifVars, probe>>

\* ChatScreen 237-243: sendMessage(threadId, user.uid, "Offer declined",
\* partnerId) up to its addDoc.
DeclineSend ==
    \E id \in DOMAIN calls :
    /\ AtPc(id, "declineSend")
    /\ LET c == calls[id]
           data == threads[c.tid]
           other == IF data.exists THEN ResolveRecipient(data, c.user, c.arg.recipientId)
                    ELSE EmptyStr
       IN  IF (~data.exists) \/ other = EmptyStr
           THEN Return(id, c, "noop")
           ELSE Suspend(id, [c EXCEPT !.pc = "add", !.data = data, !.other = other])
    /\ UNCHANGED <<storeVars, now, nCalls, histVars, screen, notifVars, probe>>

(***************************************************************************)
(* subscribeToThreads and the notification detector                        *)
(***************************************************************************)
NotifUsers == {Seller}               \* who signs in on the device under test
PrefValues == {Missing, "true", "false"}

\* The mapping of one document that passes the stored preview on as it is.
ThreadSummaryRaw(id, data, userId) ==
    LET other == FindOther(data.participants, userId)
    IN  [ id |-> id, threadId |-> data.threadId, unread |-> data.unread,
          timestamp |-> data.timestamp,
          lastMessage |-> data.lastMessage,
          partnerName |-> IF other = data.sellerId THEN data.sellerName
                          ELSE data.buyerName,
          partnerInitials |-> IF other = data.sellerId THEN data.sellerInitials
                              ELSE data.buyerInitials ]

\* subscribeToThreads' mapping of one document (api 247-262).
ThreadSummary(id, data, userId) ==
    LET other == FindOther(data.participants, userId)
        preview == IF Truthy(data.lastMessage) THEN data.lastMessage ELSE EmptyStr
        isEmpty == /\ preview = WithdrawnPreview
                   /\ \A u \in DOMAIN data.unread : data.unread[u] = 0
    IN  [ id |-> id, threadId |-> data.threadId, unread |-> data.unread,
          timestamp |-> data.timestamp,
          lastMessage |-> IF isEmpty THEN EmptyStr ELSE preview,
          partnerName |-> IF other = data.sellerId THEN data.sellerName
                          ELSE data.buyerName,
          partnerInitials |-> IF other = data.sellerId THEN data.sellerInitials
                              ELSE data.buyerInitials ]

\* The query where("participants", "array-contains", userId), mapped.
subscribeToThreads(userId) ==
    LET hits == { t \in ThreadIds : /\ threads[t].exists
                                     /\ \E i \in 1..Len(threads[t].participants) :
                                            threads[t].participants[i] = userId }
    IN  [ t \in hits |-> ThreadSummary(t, threads[t], userId) ]

\* The documents of a snapshot come in the order of their ids.
RECURSIVE InIdOrder(_)
InIdOrder(ids) ==
    IF ids = {} THEN <<>>
    ELSE LET first == CHOOSE t \in ids : \A o \in ids \ {t} : StrLess(t, o)
         IN  <<first>> \o InIdOrder(ids \ {first})

getUnreadCount(thread, userId) ==
    IF userId \in DOMAIN thread.unread THEN thread.unread[userId] ELSE 0

formatTitle(thread) ==
    IF Truthy(thread.partnerName) THEN <<"New message from ">> \o thread.partnerName
    ELSE <<"New message">>

\* const key = thread.threadId || thread.id
KeyOf(thread) == IF Truthy(thread.threadId) THEN thread.threadId ELSE thread.id

SetPrevious(previousUnread, key, n) ==
    [k \in (DOMAIN previousUnread) \cup {key} |-> IF k = key THEN n ELSE previousUnread[k]]

\* The mutation of the guard at line 157 that never takes the hydration branch.
HydratingNever(d) == FALSE

\* if (!hydratedRef.current), line 157.
Hydrating(d) == ~d.hydrated

\* Lines 159-163 for one thread.
RecordBaseline(acc, thread, userId) ==
    IF KeyOf(thread) = EmptyStr THEN acc
    ELSE [acc EXCEPT !.previousUnread =
                         SetPrevious(@, KeyOf(thread), getUnreadCount(thread, userId))]

\* The comparison that moves the baseline only when it shows a toast.
DetectUnreadOnToast(acc, thread, userId, lastEnabled) ==
    LET key == KeyOf(thread)
        unread == getUnreadCount(thread, userId)
        previous == IF key \in DOMAIN acc.previousUnread THEN acc.previousUnread[key] ELSE 0
        fire == /\ unread > previous
                /\ Truthy(thread.lastMessage)
                /\ (thread.timestamp = NoTime \/ thread.timestamp >= lastEnabled)
    IN  IF key = EmptyStr \/ ~fire THEN acc
        ELSE [ previousUnread |-> SetPrevious(acc.previousUnread, key, unread),
               toasts |-> Append(acc.toasts, [ title |-> formatTitle(thread),
                                               message |-> thread.lastMessage ]) ]

\* The comparison that shows a toast for every thread with a preview.
DetectPreview(acc, thread, userId, lastEnabled) ==
    LET key == KeyOf(thread)
        unread == getUnreadCount(thread, userId)
        fire == /\ Truthy(thread.lastMessage)
                /\ (thread.timestamp = NoTime \/ thread.timestamp >= lastEnabled)
    IN  IF key = EmptyStr THEN acc
        ELSE [ previousUnread |-> SetPrevious(acc.previousUnread, key, unread),
               toasts |-> IF fire
                          THEN Append(acc.toasts, [ title |-> formatTitle(thread),
                                                    message |-> thread.lastMessage ])
                          ELSE acc.toasts ]

\* Lines 176-207 for one thread.
DetectUnread(acc, thread, userId, lastEnabled) ==
    LET key == KeyOf(thread)
        unread == getUnreadCount(thread, userId)
        previous == IF key \in DOMAIN acc.previousUnread THEN acc.previousUnread[key] ELSE 0
        fire == /\ unread > previous
                /\ Truthy(thread.lastMessage)
                /\ (thread.timestamp = NoTime \/ thread.timestamp >= lastEnabled)
    IN  IF key = EmptyStr THEN acc
        ELSE [ previousUnread |-> SetPrevious(acc.previousUnread, key, unread),
               toasts |-> IF fire
                          THEN Append(acc.toasts, [ title |-> formatTitle(thread),
                                                    message |-> thread.lastMessage ])
                          ELSE acc.toasts ]

\* threads.forEach(...) of either branch.
RECURSIVE ForEachThread(_, _, _, _, _, _)
ForEachThread(order, view, acc, userId, lastEnabled, hydrating) ==
    IF order = <<>> THEN acc
    ELSE ForEachThread(Tail(order), view,
                       IF hydrating THEN RecordBaseline(acc, view[Head(order)], userId)
                       ELSE DetectUnread(acc, view[Head(order)], userId, lastEnabled),
                       userId, lastEnabled, hydrating)

\* The hook as it is after its first render with nobody signed in.
\* threadsUser is the user.uid the threads listener's closure holds, and
\* listeners the number of threads listeners attached to the store.
\* History: why the threads listener was last cancelled, and whose it was.
DetectorAt(t) ==
    [ user |-> EmptyStr, userSub |-> FALSE, prefPending |-> FALSE,
      threadsSub |-> FALSE, threadsUser |-> EmptyStr,
      emitted |-> "none", delivered |-> <<>>,
      hydrated |-> FALSE, previousUnread |-> <<>>, lastEnabled |-> t,
      listeners |-> 0, why |-> "never", whose |-> EmptyStr ]

\* The cancellation that leaves the listener attached.
UnsubscribeNothing(d, why) == d

\* unsubscribeThreadsRef.current(); unsubscribeThreadsRef.current = null,
\* under if (unsubscribeThreadsRef.current) (84-87, 114-117, 219-222).
UnsubscribeThreads(d, why) ==
    IF ~d.threadsSub THEN d
    ELSE [d EXCEPT !.threadsSub = FALSE, !.threadsUser = EmptyStr,
                   !.emitted = "none", !.delivered = <<>>,
                   !.listeners = @ - 1,
                   !.why = why, !.whose = d.threadsUser]

\* The cleanup that leaves the threads listener attached.
CleanupUserOnly(d) == [d EXCEPT !.userSub = FALSE, !.prefPending = FALSE]

\* The effect's cleanup (216-223); an effect that returned undefined has none.
Cleanup(d) ==
    IF ~d.userSub THEN d
    ELSE UnsubscribeThreads([d EXCEPT !.userSub = FALSE, !.prefPending = FALSE], "user")

\* The effect's body for user u up to the onSnapshot of the user document
\* (73-97).
Effect(d, u) ==
    LET reset == [d EXCEPT !.user = u, !.previousUnread = <<>>, !.hydrated = FALSE]
    IN  IF u = EmptyStr THEN UnsubscribeThreads(reset, "user")
        ELSE [reset EXCEPT !.userSub = TRUE, !.prefPending = TRUE]

\* useAuth's user changes to one of users ("" is nobody): the cleanup of the
\* last effect, then the effect again.
AuthChange(users) ==
    \E u \in users :
    /\ u /= detector.user
    /\ detector' = Effect(Cleanup(detector), u)
    /\ UNCHANGED <<storeVars, now, callVars, histVars, screen, prefs, toasts, probe>>

\* The signed-in user's document is written, by the settings screen
\* (notificationPreferences.messages) or by a write of another field.
UserDocWrite ==
    \E v \in PrefValues :
    /\ detector.userSub
    /\ prefs' = [prefs EXCEPT ![detector.user] = v]
    /\ detector' = [detector EXCEPT !.prefPending = TRUE]
    /\ (prefs' /= prefs \/ detector' /= detector)
    /\ UNCHANGED <<storeVars, now, callVars, histVars, screen, toasts, probe>>

\* data?.notificationPreferences?.messages ?? true
messagesEnabled(v) == IF v = Missing THEN TRUE ELSE v = "true"

\* The subscription made whether or not one is held already.
SubscribeThreadsAgain(d) ==
    [d EXCEPT !.threadsSub = TRUE, !.threadsUser = d.user,
              !.emitted = "none", !.delivered = <<>>,
              !.listeners = @ + 1]

\* Lines 137-150: if (unsubscribeThreadsRef.current) return;
\* unsubscribeThreadsRef.current = subscribeToThreads(user.uid, ...).
SubscribeThreads(d) ==
    IF d.threadsSub THEN d
    ELSE [d EXCEPT !.threadsSub = TRUE, !.threadsUser = d.user,
                   !.emitted = "none", !.delivered = <<>>,
                   !.listeners = @ + 1]

\* The user document's listener (97-150).
PrefSnapshot ==
    /\ detector.userSub
    /\ detector.prefPending
    /\ detector' =
          IF ~messagesEnabled(prefs[detector.user])
          THEN [UnsubscribeThreads(detector, "disabled")
                    EXCEPT !.prefPending = FALSE,
                           !.previousUnread = <<>>,
                           !.hydrated = FALSE]
          ELSE SubscribeThreads([detector EXCEPT !.prefPending = FALSE,
                                                 !.lastEnabled = now])
    /\ UNCHANGED <<storeVars, now, callVars, histVars, screen, prefs, toasts, probe>>

\* The threads listener's callback (150-208) on the current query result.
ThreadsEmit ==
    /\ detector.threadsSub
    /\ LET view == subscribeToThreads(detector.threadsUser)
           acc == ForEachThread(InIdOrder(DOMAIN view), view,
                                [ previousUnread |-> detector.previousUnread,
                                  toasts |-> toasts ],
                                detector.threadsUser, detector.lastEnabled,
                                Hydrating(detector))
       IN  /\ detector.emitted = "none" \/ detector.delivered /= view
           /\ detector' = [detector EXCEPT !.emitted = IF @ = "none" THEN "first" ELSE "more",
                                           !.delivered = view,
                                           !.previousUnread = acc.previousUnread,
                                           !.hydrated = TRUE]
           /\ toasts' = acc.toasts
    /\ UNCHANGED <<storeVars, now, callVars, histVars, screen, prefs, probe>>

(***************************************************************************)
(* Specifications                                                          *)
(***************************************************************************)
NoProbe == [fn |-> "none"]

\* T1 as getOrCreateThread leaves it when it creates the thread.
OpenedThread == NewThreadDoc(Ctx(Buyer, <<"Bo">>, <<"Bike">>), T1, 1)

InitWith(d) ==
    /\ threads = [t \in ThreadIds |-> IF t = T1 THEN d ELSE NoDoc]
    /\ msgs = [t \in ThreadIds |-> <<>>]
    /\ listings = 0
    /\ now = IF d.exists THEN 2 ELSE 1
    /\ calls = <<>>
    /\ nCalls = 0
    /\ last = NoCall
    /\ applied = {}
    /\ owed = [t \in ThreadIds |-> [u \in Users |-> NoneOwed]]
    /\ screen = NoScreen
    /\ prefs = [u \in Users |-> Missing]
    /\ detector = DetectorAt(IF d.exists THEN 2 ELSE 1)
    /\ toasts = <<>>

\* The store holds no thread yet.
Init == InitWith(NoDoc) /\ probe = NoProbe

\* The conversation has been opened before.
InitOpen == InitWith(OpenedThread) /\ probe = NoProbe

\* Calls interleaved at their awaits.
Next ==
    \/ StartGetOrCreate(Interleaved) \/ StartSendMessage(Interleaved) \/ StartSendPhoto(Interleaved)
    \/ StartSendOffer(Interleaved) \/ StartClearUnread(Interleaved)
    \/ ScreenMount(Interleaved) \/ AcceptPress(Interleaved) \/ DeclinePress(Interleaved)
    \/ GocCreate \/ GocListing \/ GocRefresh
    \/ PhotoUpload \/ AppendAdd \/ AppendUpdate
    \/ AcceptThread \/ DeclineSend
    \/ StartWithdraw(Interleaved) \/ WithdrawThread
    \/ StartToggleReaction(Interleaved) \/ StartRemoveReaction(Interleaved)
    \/ MessagesEmit

Spec == Init /\ [][Next]_vars

\* Every call awaited before the next one is made.
NextSeq ==
    \/ StartGetOrCreate(Observed) \/ StartSendMessage(Observed) \/ StartSendPhoto(Observed)
    \/ StartSendOffer(Observed) \/ StartClearUnread(Observed)
    \/ ScreenMount(Observed) \/ AcceptPress(Observed) \/ DeclinePress(Observed)
    \/ GocCreate \/ GocListing \/ GocRefresh
    \/ PhotoUpload \/ AppendAdd \/ AppendUpdate
    \/ AcceptThread \/ DeclineSend
    \/ MessagesEmit

SpecSeq == Init /\ [][NextSeq]_vars

\* First contact: getOrCreateThread calls and sendMessage, interleaved.
NextCreate ==
    \/ StartGetOrCreate(Interleaved) \/ StartSendMessage(Interleaved)
    \/ GocCreate \/ GocListing \/ GocRefresh
    \/ AppendAdd \/ AppendUpdate

SpecCreate == Init /\ [][NextCreate]_vars

\* The appends and clearUnread on the open thread, interleaved.
NextAppend ==
    \/ StartSendMessage(Interleaved) \/ StartSendPhoto(Interleaved) \/ StartSendOffer(Interleaved)
    \/ StartClearUnread(Interleaved)
    \/ PhotoUpload \/ AppendAdd \/ AppendUpdate

SpecAppend == InitOpen /\ [][NextAppend]_vars

\* The offer sub-protocol on the open thread: offers are sent, the seller's
\* ChatScreen shows them and the seller presses Accept and Decline.
NextOffer ==
    \/ StartSendOffer(Interleaved)
    \/ ScreenMount(Interleaved) \/ MessagesEmit
    \/ AcceptPress(Interleaved) \/ DeclinePress(Interleaved)
    \/ AppendAdd \/ AppendUpdate
    \/ AcceptThread \/ DeclineSend

SpecOffer == InitOpen /\ [][NextOffer]_vars

\* The detector on the device of one user, who signs in and changes the
\* preference while messages are sent and read.
NextNotif ==
    \/ AuthChange(NotifUsers) \/ UserDocWrite \/ PrefSnapshot \/ ThreadsEmit
    \/ StartSendMessage(Awaited) \/ StartClearUnread(Awaited)
    \/ AppendAdd \/ AppendUpdate

SpecNotif == InitOpen /\ [][NextNotif]_vars

\* The device changes hands between the two participants while messages
\* are sent; the preferences stay as they are.
NextAuth ==
    \/ AuthChange(Participants \cup {EmptyStr}) \/ PrefSnapshot \/ ThreadsEmit
    \/ StartSendMessage(Awaited)
    \/ AppendAdd \/ AppendUpdate

SpecAuth == InitOpen /\ [][NextAuth]_vars

\* Messages and photos are sent on the open thread, reacted to and
\* withdrawn, each call awaited before the next.
NextWithdraw ==
    \/ StartSendMessage(Observed) \/ StartSendPhoto(Observed) \/ StartWithdraw(Observed)
    \/ PhotoUpload \/ AppendAdd \/ AppendUpdate
    \/ WithdrawThread
    \/ StartToggleReaction(Observed) \/ StartRemoveReaction(Observed)

SpecWithdraw == InitOpen /\ [][NextWithdraw]_vars

\* The life of a message: offers are sent, withdrawn, reacted to, accepted
\* and declined, the calls interleaved at their awaits.
NextLog ==
    \/ StartSendOffer(Interleaved) \/ AppendAdd \/ AppendUpdate
    \/ StartWithdraw(Interleaved) \/ WithdrawThread
    \/ StartToggleReaction(Interleaved) \/ StartRemoveReaction(Interleaved)
    \/ ScreenMount(Interleaved) \/ MessagesEmit
    \/ AcceptPress(Interleaved) \/ AcceptThread
    \/ DeclinePress(Interleaved) \/ DeclineSend

SpecLog == InitOpen /\ [][NextLog]_vars

\* The thread list of one signed-in user while messages are sent, withdrawn
\* and read.
NextList ==
    \/ AuthChange(NotifUsers) \/ PrefSnapshot \/ ThreadsEmit
    \/ StartSendMessage(Awaited) \/ AppendAdd \/ AppendUpdate
    \/ StartWithdraw(Awaited) \/ WithdrawThread
    \/ StartClearUnread(Awaited)

SpecList == InitOpen /\ [][NextList]_vars

(***************************************************************************)
(* The thread id as a function of its inputs                               *)
(***************************************************************************)
InitId ==
    /\ InitWith(NoDoc)
    /\ \E b \in IdStrings, sl \in IdStrings, it \in IdStrings :
           probe = [ fn |-> "threadId", buyerId |-> b, sellerId |-> sl, itemId |-> it,
                     done |-> FALSE, baseId |-> EmptyStr, threadId |-> EmptyStr ]

\* getOrCreateThread 72-73 on the inputs.
DeriveThreadId ==
    /\ probe.fn = "threadId"
    /\ ~probe.done
    /\ probe' = [probe EXCEPT !.done = TRUE,
                              !.baseId = makeThreadId(probe.buyerId, probe.sellerId),
                              !.threadId = ThreadIdOf(probe.buyerId, probe.sellerId,
                                                      probe.itemId)]
    /\ UNCHANGED <<storeVars, now, callVars, histVars, screen, notifVars>>

SpecId == InitId /\ [][DeriveThreadId]_vars

\* The detector while its user signs in and out and changes the
\* preference, and messages arrive.
NextSubs ==
    \/ AuthChange(NotifUsers \cup {EmptyStr}) \/ UserDocWrite \/ PrefSnapshot \/ ThreadsEmit
    \/ StartSendMessage(Awaited) \/ AppendAdd \/ AppendUpdate

SpecSubs == InitOpen /\ [][NextSubs]_vars

(***************************************************************************)
(* signUpUW and signInUW (features/auth/api.ts), one call per behaviour    *)
(***************************************************************************)
\* An email address as typed: its local part, its domain, and whether it is
\* typed with spaces around it.
AuthEmails ==
    [ local : {<<"bo">>, <<"b o">>}, domain : {"wisc.edu", "WISC.EDU", "gmail.com"},
      padded : BOOLEAN ]

\* email.trim().toLowerCase()
normalizeEmail(email) ==
    [ local |-> email.local, padded |-> FALSE,
      domain |-> IF email.domain = "WISC.EDU" THEN "wisc.edu" ELSE email.domain ]

\* UW_EMAIL_RE = /^[a-z0-9._%+-]+@wisc\.edu$/i
IsUwEmail(email) ==
    /\ ~email.padded
    /\ email.local \in {<<"bo">>}
    /\ email.domain \in {"wisc.edu", "WISC.EDU"}

InitSign ==
    /\ InitWith(NoDoc)
    /\ \E op \in {"signUpUW", "signInUW"}, email \in AuthEmails,
          displayName \in {EmptyStr, <<"Bo">>} :
           probe = [ fn |-> "auth", op |-> op, email |-> email,
                     displayName |-> IF op = "signUpUW" THEN displayName ELSE EmptyStr,
                     pc |-> "start", user |-> EmptyStr, logged |-> "no" ]

\* signUpUW 26-31, signInUW 59-64: the email is checked and the credential
\* is asked for; both failures are thrown.
SignStart ==
    \E ok \in BOOLEAN :
    /\ probe.fn = "auth"
    /\ probe.pc = "start"
    /\ probe' = IF IsUwEmail(normalizeEmail(probe.email)) /\ ok
                THEN [probe EXCEPT !.user = Buyer2,
                                   !.pc = IF probe.op = "signInUW" THEN "activity"
                                          ELSE IF probe.displayName /= EmptyStr THEN "profile"
                                          ELSE "userDoc"]
                ELSE [probe EXCEPT !.pc = "threw"]
    /\ UNCHANGED <<storeVars, now, callVars, histVars, screen, notifVars>>

\* signUpUW 33-43: updateProfile, then setDoc of the whole user document.
SignProfile ==
    \E ok \in BOOLEAN :
    /\ probe.fn = "auth"
    /\ probe.pc \in {"profile", "userDoc"}
    /\ probe' = [probe EXCEPT !.pc = IF ~ok THEN "threw"
                                     ELSE IF probe.pc = "profile" THEN "userDoc"
                                     ELSE "activity"]
    /\ prefs' = IF ok /\ probe.pc = "userDoc" THEN [prefs EXCEPT ![probe.user] = Missing]
                ELSE prefs
    /\ UNCHANGED <<storeVars, now, callVars, histVars, screen, detector, toasts>>

\* signUpUW 46-52, signInUW 66-72: logLoginActivity in a try whose catch
\* warns, then return cred.user.
SignLog ==
    \E ok \in BOOLEAN :
    /\ probe.fn = "auth"
    /\ probe.pc = "activity"
    /\ probe' = [probe EXCEPT !.pc = "returned", !.logged = IF ok THEN "yes" ELSE "failed"]
    /\ UNCHANGED <<storeVars, now, callVars, histVars, screen, notifVars>>

\* The operations with a best-effort side effect: getOrCreateThread calls,
\* each awaited, and one sign-up or sign-in.
NextEffort ==
    \/ StartGetOrCreate(Observed) \/ GocCreate \/ GocListing \/ GocRefresh
    \/ SignStart \/ SignProfile \/ SignLog

SpecEffort == InitSign /\ [][NextEffort]_vars

(***************************************************************************)
(* canWithdrawMessage as a function of createdAt and the clock             *)
(***************************************************************************)
WithdrawWindowMs == 180000

\* What a caller passes as createdAt: nothing (undefined, or the null of a
\* timestamp the server has not set yet), a Timestamp object with toMillis,
\* or a number of milliseconds.
NoCreatedAt == [kind |-> "missing"]
Timestamp(ms) == [kind |-> "timestamp", ms |-> ms]
Millis(ms) == [kind |-> "number", ms |-> ms]

CreatedMs == {0, 1, 1000, 200000}
ElapsedMs == {-1, 0, 179999, 180000, 180001}
CreatedAts == {NoCreatedAt} \cup {Timestamp(ms) : ms \in CreatedMs}
                            \cup {Millis(ms) : ms \in CreatedMs}
ClockMs == {c + e : c \in CreatedMs, e \in ElapsedMs}

\* !createdAt: undefined, null and the number 0 are falsy, an object is not.
Falsy(createdAt) ==
    \/ createdAt.kind = "missing"
    \/ createdAt.kind = "number" /\ createdAt.ms = 0

\* The window with its last millisecond left out.
canWithdrawBefore(createdAt, dateNow) ==
    IF Falsy(createdAt) THEN FALSE
    ELSE dateNow - createdAt.ms < WithdrawWindowMs

\* Lines 284-292; toMillis of a Timestamp does not throw.
canWithdrawMessage(createdAt, dateNow) ==
    IF Falsy(createdAt) THEN FALSE
    ELSE dateNow - createdAt.ms <= WithdrawWindowMs

InitWindow ==
    /\ InitWith(NoDoc)
    /\ \E createdAt \in CreatedAts, dateNow \in ClockMs :
           probe = [ fn |-> "canWithdraw", createdAt |-> createdAt, dateNow |-> dateNow,
                     done |-> FALSE, result |-> FALSE ]

CheckWindow ==
    /\ probe.fn = "canWithdraw"
    /\ ~probe.done
    /\ probe' = [probe EXCEPT !.done = TRUE,
                              !.result = canWithdrawMessage(probe.createdAt, probe.dateNow)]
    /\ UNCHANGED <<storeVars, now, callVars, histVars, screen, notifVars>>

SpecWindow == InitWindow /\ [][CheckWindow]_vars

(***************************************************************************)
(* ChatScreen: the long-press menu of a message                            *)
(***************************************************************************)
TickMs == 60000      \* the clock's tick, in milliseconds
MaxTicks == 7        \* the clock stops here

\* The dialog Alert.alert has on display, if any, with the message it is
\* about, and the button that closed the dialog before it.
NoAlert == [fn |-> "alert", title |-> "none", msgId |-> 0, pressed |-> "none"]

\* Time passes, on the device and the server alike.
Tick ==
    /\ now < MaxTicks
    /\ now' = now + 1
    /\ UNCHANGED <<storeVars, callVars, histVars, screen, notifVars, probe>>

\* ChatScreen 167-180: the dialog openWithdrawMenu leaves on display, for
\* msg.raw.createdAt as the subscription delivered it and Date.now().
openWithdrawMenu(i) ==
    LET msg == screen.messages[i] IN
    IF msg.senderId /= screen.user THEN probe
    ELSE IF ~canWithdrawMessage(Timestamp(msg.createdAt * TickMs), now * TickMs)
         THEN [probe EXCEPT !.title = "Cannot withdraw"]
         ELSE [probe EXCEPT !.title = "Message options", !.msgId = i]

\* ChatScreen 270-300: a long press on a message bubble; an offer is
\* rendered without the handler, and a withdrawn message skips the menu.
LongPress ==
    \E i \in 1..Len(screen.messages) :
    /\ screen.mounted
    /\ probe.title = "none"
    /\ screen.messages[i].type /= "offer"
    /\ ~screen.messages[i].withdrawn
    /\ probe' = openWithdrawMenu(i)
    /\ UNCHANGED <<storeVars, now, callVars, histVars, screen, notifVars>>

\* "Cancel", or the only button of the rejection.
DismissAlert ==
    /\ probe.title /= "none"
    /\ probe' = [NoAlert EXCEPT !.pressed = IF probe.title = "Message options"
                                            THEN "Cancel" ELSE "OK"]
    /\ UNCHANGED <<storeVars, now, callVars, histVars, screen, notifVars>>

\* "Withdraw" (ChatScreen 175-178): withdrawMessage is called with the message
\* the menu was opened on.
ConfirmWithdraw(mode) ==
    \E ok \in BOOLEAN :
    /\ probe.title = "Message options"
    /\ mode = Interleaved \/ DOMAIN calls = {}
    /\ nCalls < MaxSeqCalls
    /\ nCalls' = nCalls + 1
    /\ WithdrawCall(mode, T1, probe.msgId, ok)
    /\ probe' = [NoAlert EXCEPT !.pressed = "Withdraw"]
    /\ UNCHANGED <<threads, listings, now, histVars, screen, notifVars>>

\* The seller's screen while both participants send messages and time
\* passes: messages are long-pressed, and the dialogs answered.
InitMenu == InitWith(OpenedThread) /\ probe = NoAlert

NextMenu ==
    \/ ScreenMount(Observed) \/ MessagesEmit
    \/ StartSendMessage(Observed) \/ AppendAdd \/ AppendUpdate
    \/ Tick \/ LongPress \/ DismissAlert
    \/ ConfirmWithdraw(Observed) \/ WithdrawThread

SpecMenu == InitMenu /\ [][NextMenu]_vars

\* The thread list of a user who signs in and out and changes the
\* preference, while the open conversation is refreshed, written to, read,
\* withdrawn from and settled, each call awaited before the next.
MaxToastCalls == 2   \* api calls started in one behaviour of the thread list

NextToast ==
    \/ AuthChange(NotifUsers \cup {EmptyStr}) \/ UserDocWrite \/ PrefSnapshot \/ ThreadsEmit
    \/ (nCalls < MaxToastCalls /\ StartGetOrCreate(Awaited)) \/ GocRefresh
    \/ (nCalls < MaxToastCalls /\ StartSendOffer(Awaited)) \/ AppendAdd \/ AppendUpdate
    \/ (nCalls < MaxToastCalls /\ StartWithdraw(Awaited)) \/ WithdrawThread
    \/ (nCalls < MaxToastCalls /\ StartClearUnread(Awaited))
    \/ ScreenMount(Awaited) \/ MessagesEmit
    \/ (nCalls < MaxToastCalls /\ AcceptPress(Awaited)) \/ AcceptThread

SpecToast == InitOpen /\ [][NextToast]_vars

\* The thread list of a signed-in user from before the conversation is
\* opened: the thread is created and written to while the list is shown.
NextFresh ==
    \/ AuthChange(NotifUsers) \/ UserDocWrite \/ PrefSnapshot \/ ThreadsEmit
    \/ StartGetOrCreate(Awaited) \/ GocCreate \/ GocListing \/ GocRefresh
    \/ StartSendMessage(Awaited) \/ AppendAdd \/ AppendUpdate

SpecFresh == Init /\ [][NextFresh]_vars

(***************************************************************************)
(* Properties                                                              *)
(***************************************************************************)
\* A call has just returned to a caller that awaited it, and nothing has
\* been started since: `last.pre` is the store as the call found it.
JustReturned == calls = <<>> /\ last.op /= "none" /\ last.n = nCalls

IsParticipant(d, userId) == \E i \in 1..Len(d.participants) : d.participants[i] = userId

\* C1: the create path of getOrCreateThread never overwrites a thread that
\* already exists: no step resets a thread that holds a lastMessage or a
\* non-zero unread counter to lastMessage "" with every counter 0.
C1_CreateNeverOverwrites ==
    [][\A t \in ThreadIds :
          (/\ threads[t].exists
           /\ \/ threads[t].lastMessage /= EmptyStr
              \/ \E u \in DOMAIN threads[t].unread : threads[t].unread[u] > 0)
          => ~(/\ threads'[t].lastMessage = EmptyStr
               /\ \A u \in DOMAIN threads'[t].unread : threads'[t].unread[u] = 0)]_vars

\* C2: run sequentially, a getOrCreateThread that finds the thread returns
\* the id the thread was created under and changes only itemId, itemName and
\* timestamp: unread, lastMessage, participants and the log stay as they were.
C2_SecondCallRefreshesOnly ==
    (/\ JustReturned
     /\ last.op = "getOrCreateThread"
     /\ last.outcome = "ok"
     /\ last.pre.threads[last.tid].exists)
    => LET before == last.pre.threads[last.tid]
           after == threads[last.tid]
       IN  /\ last.tid = before.threadId
           /\ { t \in ThreadIds : threads[t].exists } = { last.tid }
           /\ after.unread = before.unread
           /\ after.lastMessage = before.lastMessage
           /\ after.participants = before.participants
           /\ after.itemId = last.arg.itemId
           /\ after.itemName = last.arg.itemName
           /\ after = [before EXCEPT !.itemId = after.itemId,
                                     !.itemName = after.itemName,
                                     !.timestamp = after.timestamp]
           /\ msgs = last.pre.msgs

\* The second call comes after an append and with a renamed listing.
C2_Witness ==
    /\ JustReturned
    /\ last.op = "getOrCreateThread"
    /\ last.outcome = "ok"
    /\ last.pre.threads[last.tid].exists
    /\ Len(msgs[last.tid]) > 0
    /\ \E u \in Participants : last.pre.threads[last.tid].unread[u] > 0
    /\ threads[last.tid].itemName /= last.pre.threads[last.tid].itemName

\* The order on strings, stated without recursion: a <= b iff after a common
\* prefix either a has ended or a's next code unit is the smaller one.
StrLeq(a, b) ==
    \E k \in 0..Len(a) :
        /\ k <= Len(b)
        /\ SubSeq(a, 1, k) = SubSeq(b, 1, k)
        /\ \/ k = Len(a)
           \/ k < Len(b) /\ a[k + 1] < b[k + 1]
MinStr(a, b) == IF StrLeq(a, b) THEN a ELSE b
MaxStr(a, b) == IF StrLeq(a, b) THEN b ELSE a

\* C3: the thread id does not depend on which of the two participants is
\* passed as buyer: the base id is min(A,B) + "_" + max(A,B) for both orders
\* of the arguments, and the full id is the base id + "_" + itemId.
C3_ThreadIdSymmetric ==
    (probe.fn = "threadId" /\ probe.done) =>
        LET A == probe.buyerId
            B == probe.sellerId
        IN  /\ probe.baseId = MinStr(A, B) \o <<Underscore>> \o MaxStr(A, B)
            /\ makeThreadId(B, A) = probe.baseId
            /\ probe.threadId = probe.baseId \o <<Underscore>> \o probe.itemId
            /\ ThreadIdOf(B, A, probe.itemId) = probe.threadId

\* The buyer's id is the greater one, and is a proper extension of the
\* seller's: the order of the arguments and the prefix rule both matter.
C3_Witness ==
    /\ probe.fn = "threadId" /\ probe.done
    /\ Len(probe.sellerId) < Len(probe.buyerId)
    /\ SubSeq(probe.buyerId, 1, Len(probe.sellerId)) = probe.sellerId
    /\ probe.baseId = probe.sellerId \o <<Underscore>> \o probe.buyerId

\* C4: a sendMessage with non-blank text on an existing thread, awaited with
\* nothing interleaved, does not return early, and when it completes the log
\* is one message longer, the new message has the sender, the text and
\* withdrawn = false, lastMessage is the text, the recipient's unread is one
\* higher and the sender's is unchanged; without a recipientId the
\* recipient is the other participant.
C4_SendMessagePost ==
    (/\ JustReturned
     /\ last.op = "sendMessage"
     /\ Trim(last.arg.text) /= EmptyStr
     /\ last.pre.threads[last.tid].exists)
    => /\ last.outcome \in {"ok", "error"}
       /\ last.outcome = "ok" =>
            LET before == last.pre.threads[last.tid]
                after == threads[last.tid]
                log == msgs[last.tid]
                recipient == IF last.arg.recipientId = EmptyStr
                             THEN CHOOSE p \in Participants : p /= last.user
                             ELSE last.arg.recipientId
            IN  /\ Len(log) = Len(last.pre.msgs[last.tid]) + 1
                /\ SubSeq(log, 1, Len(log) - 1) = last.pre.msgs[last.tid]
                /\ log[Len(log)].senderId = last.user
                /\ log[Len(log)].text = last.arg.text
                /\ log[Len(log)].withdrawn = FALSE
                /\ after.lastMessage = last.arg.text
                /\ after.unread[recipient] = before.unread[recipient] + 1
                /\ after.unread[last.user] = before.unread[last.user]

\* A second message to a recipient who has not read the first, sent
\* without a recipientId.
C4_Witness ==
    /\ JustReturned
    /\ last.op = "sendMessage"
    /\ last.outcome = "ok"
    /\ last.arg.recipientId = EmptyStr
    /\ \E p \in Participants :
          /\ p /= last.user
          /\ last.pre.threads[last.tid].unread[p] > 0
          /\ threads[last.tid].unread[p] = last.pre.threads[last.tid].unread[p] + 1

\* C5: the log append and the thread update are one atomic step: in every
\* reachable state each message of the log has had its preview and unread
\* bump written to the thread.
C5_AppendAtomic ==
    \A t \in ThreadIds : \A i \in 1..Len(msgs[t]) : <<t, i>> \in applied

\* C6: with no operation in flight (and no store write having failed), each
\* participant's unread counter is the number of messages appended for them
\* since their last completed clearUnread; an append whose two writes fall
\* on either side of the clear may count or not.
C6_UnreadCountsAppends ==
    (/\ calls = <<>>
     /\ \A i \in 1..Len(msgs[T1]) : <<T1, i>> \in applied)
    => \A u \in Participants :
          /\ owed[T1][u].added <= threads[T1].unread[u]
          /\ threads[T1].unread[u] <= owed[T1][u].written

\* C7: offer status is forward-only: once a message's offerStatus is
\* accepted or declined no step changes it.
C7_OfferStatusForwardOnly ==
    [][\A i \in 1..Len(msgs[T1]) :
          msgs[T1][i].offerStatus \in {"accepted", "declined"}
          => msgs'[T1][i].offerStatus = msgs[T1][i].offerStatus]_vars

\* C8: acceptOffer on a pending offer, awaited with nothing interleaved,
\* leaves the message accepted, the thread with acceptedOffer = {buyerId,
\* amount, acceptedAt} and lastMessage "Offer accepted ($<amount>)", and
\* leaves the unread counters and the length of the log as they were.
C8_AcceptOfferPost ==
    (/\ JustReturned
     /\ last.op = "acceptOffer"
     /\ last.outcome = "ok"
     /\ last.pre.msgs[last.tid][last.arg.messageId].offerStatus = "pending")
    => LET before == last.pre.threads[last.tid]
           after == threads[last.tid]
           m == last.arg.messageId
       IN  /\ msgs[last.tid][m].offerStatus = "accepted"
           /\ msgs[last.tid] = [last.pre.msgs[last.tid] EXCEPT ![m].offerStatus = "accepted"]
           /\ after.acceptedOffer.set
           /\ after.acceptedOffer.buyerId = last.arg.buyerId
           /\ after.acceptedOffer.amount = last.arg.amount
           /\ after.acceptedOffer.acceptedAt = after.timestamp
           /\ after.acceptedOffer.acceptedAt > before.timestamp
           /\ after.lastMessage = <<"Offer accepted ($", ToString(last.arg.amount), ")">>
           /\ after.unread = before.unread
           /\ Len(msgs[last.tid]) = Len(last.pre.msgs[last.tid])

\* The seller accepts the buyer's offer while still having it unread.
C8_Witness ==
    /\ JustReturned
    /\ last.op = "acceptOffer"
    /\ last.outcome = "ok"
    /\ last.arg.buyerId = Buyer
    /\ msgs[last.tid][last.arg.messageId].senderId = Buyer
    /\ threads[last.tid].unread[Seller] > 0
    /\ threads[last.tid].acceptedOffer.set

\* C9: the message is authoritative for acceptance: a thread with
\* acceptedOffer set has in its log an offer message with offerStatus
\* "accepted" and the amount of acceptedOffer.
C9_AcceptedOfferHasMessage ==
    \A t \in ThreadIds :
        (threads[t].exists /\ threads[t].acceptedOffer.set)
        => \E i \in 1..Len(msgs[t]) :
              /\ msgs[t][i].type = "offer"
              /\ msgs[t][i].offerStatus = "accepted"
              /\ msgs[t][i].amount = threads[t].acceptedOffer.amount

\* C10: the first emission of the threads listener after the detector
\* subscribes or re-subscribes fires no toast and records, for each thread
\* of the user, the user's unread count as the baseline.
C10_HydrationGuard ==
    [][(/\ detector.threadsSub
        /\ detector.emitted = "none"
        /\ detector'.emitted = "first")
       => /\ toasts' = toasts
          /\ \A t \in ThreadIds :
                (threads[t].exists /\ IsParticipant(threads[t], detector.user))
                => /\ t \in DOMAIN detector'.previousUnread
                   /\ detector'.previousUnread[t] =
                         IF detector.user \in DOMAIN threads[t].unread
                         THEN threads[t].unread[detector.user] ELSE 0]_vars

\* The first emission after a subscription, made with the preference set to
\* true, carried an unread message written after notifications were enabled;
\* it is the baseline and no toast has been shown.
C10_Witness ==
    /\ detector.threadsSub
    /\ detector.emitted = "first"
    /\ prefs[detector.user] = "true"
    /\ detector.hydrated
    /\ T1 \in DOMAIN detector.previousUnread
    /\ detector.previousUnread[T1] > 0
    /\ threads[T1].unread[detector.user] = detector.previousUnread[T1]
    /\ threads[T1].timestamp >= detector.lastEnabled
    /\ toasts = <<>>

\* The detector's view of the emission it has just processed.
UnreadIn(view, t, userId) ==
    IF t \in DOMAIN view /\ userId \in DOMAIN view[t].unread THEN view[t].unread[userId] ELSE 0

BaselineOf(d, t) == IF t \in DOMAIN d.previousUnread THEN d.previousUnread[t] ELSE 0

\* C11: after hydration, an emission fires exactly one toast for each thread
\* in it whose unread count for the user is above the baseline and whose
\* preview is non-empty, with that preview as message and the partner's name
\* in the title, and no other toast.
C11_ToastPerIncrease ==
    [][(/\ detector.threadsSub /\ detector'.threadsSub
        /\ detector.hydrated
        /\ detector'.delivered /= detector.delivered)
       => LET view == detector'.delivered
              due == { t \in DOMAIN view :
                         /\ UnreadIn(view, t, detector.user) > BaselineOf(detector, t)
                         /\ view[t].lastMessage /= EmptyStr }
          IN  /\ Len(toasts') = Len(toasts) + Cardinality(due)
              /\ SubSeq(toasts', 1, Len(toasts)) = toasts
              /\ \A t \in due :
                    \E i \in (Len(toasts) + 1)..Len(toasts') :
                       /\ toasts'[i].message = view[t].lastMessage
                       /\ toasts'[i].title =
                             IF view[t].partnerName \in {EmptyStr, MissingStr}
                             THEN <<"New message">>
                             ELSE <<"New message from ">> \o view[t].partnerName]_vars

\* C12: when the detector learns that the preference is disabled it cancels
\* the threads listener and resets the baseline and the hydration flag; and a
\* toast only ever fires for an unread count above the one of the previous
\* emission of the same subscription, so never for an increase that came
\* while the listener was cancelled.
C12_DisableResets ==
    [][/\ (/\ detector.userSub /\ detector.prefPending /\ ~detector'.prefPending
           /\ detector'.user = detector.user
           /\ prefs[detector.user] = "false")
          => /\ ~detector'.threadsSub
             /\ detector'.previousUnread = <<>>
             /\ ~detector'.hydrated
             /\ toasts' = toasts
       /\ (toasts' /= toasts)
          => /\ detector.threadsSub /\ detector.hydrated
             /\ \E t \in DOMAIN detector'.delivered :
                   UnreadIn(detector'.delivered, t, detector.user)
                      > UnreadIn(detector.delivered, t, detector.user)]_vars

\* Re-enabled after a disable: a message of the partner written before the
\* re-enabling is in the first emission of the new listener, which seeded
\* the baseline without a toast.
C12_Witness ==
    /\ detector.why = "disabled"
    /\ detector.threadsSub
    /\ detector.emitted = "first"
    /\ T1 \in DOMAIN detector.previousUnread
    /\ detector.previousUnread[T1] > 0
    /\ msgs[T1][Len(msgs[T1])].senderId /= detector.user
    /\ threads[T1].timestamp < detector.lastEnabled
    /\ toasts = <<>>

\* C13: a change of the authenticated user cancels both listeners of the
\* previous user and clears the baseline and the hydration flag in the same
\* step; the threads listener is always the current user's, a toast is only
\* computed against a baseline made of the current user's counts, and no
\* toast fires before the new user's first emission has been processed.
C13_UserChangeResets ==
    [][/\ (detector'.user /= detector.user)
          => /\ detector'.previousUnread = <<>>
             /\ ~detector'.hydrated
             /\ ~detector'.threadsSub
             /\ detector'.userSub = (detector'.user /= EmptyStr)
             /\ toasts' = toasts
       /\ detector.threadsSub => detector.threadsUser = detector.user
       /\ (~detector.hydrated) => toasts' = toasts
       /\ (toasts' /= toasts)
          => \A t \in DOMAIN detector.previousUnread :
                detector.previousUnread[t] = UnreadIn(detector.delivered, t, detector.user)]_vars

\* The buyer signed in after the seller, whose listener was cancelled: the
\* buyer's first emission carried unread messages and seeded the baseline
\* with the buyer's count, which is not the seller's.
C13_Witness ==
    /\ detector.why = "user"
    /\ detector.user = Buyer
    /\ detector.threadsSub
    /\ detector.emitted = "first"
    /\ detector.whose = Seller
    /\ T1 \in DOMAIN detector.previousUnread
    /\ detector.previousUnread[T1] = threads[T1].unread[Buyer]
    /\ detector.previousUnread[T1] > 0
    /\ detector.previousUnread[T1] /= threads[T1].unread[Seller]
    /\ toasts = <<>>

StoreAsBefore ==
    threads = last.pre.threads /\ msgs = last.pre.msgs /\ listings = last.pre.listings

OnlyWhiteSpace(text) == \A i \in 1..Len(text) : text[i] \in WhiteSpace

\* C14: sendMessage with a text of white space only changes nothing: when it
\* has returned, the message logs and every thread document (lastMessage,
\* timestamp, unread counters) are as the call found them, it returned
\* without an error, and it returned before its first await, so with no read
\* and no write of the store.
C14_BlankTextChangesNothing ==
    (JustReturned /\ last.op = "sendMessage" /\ OnlyWhiteSpace(last.arg.text))
        => /\ last.outcome = "noop"
           /\ last.at = "start"
           /\ StoreAsBefore

\* A blank text sent on a thread that exists and already holds a message.
C14_Witness ==
    /\ JustReturned
    /\ last.op = "sendMessage"
    /\ last.arg.text = <<" ">>
    /\ last.outcome = "noop"
    /\ threads[T1].exists
    /\ Len(msgs[T1]) = 1
    /\ threads[T1].lastMessage = <<"hi">>

\* C15: sendMessage, sendPhoto and sendOffer on a thread id that has no
\* document return without an error and without an effect: no thread
\* document has been created, no message has been appended under any id, and
\* the call returned at the latest right after its read of the thread, so
\* that sendPhoto started no upload.
C15_SendOnMissingThread ==
    (/\ JustReturned
     /\ last.op \in {"sendMessage", "sendPhoto", "sendOffer"}
     /\ ~last.pre.threads[last.tid].exists)
        => /\ last.outcome = "noop"
           /\ last.at \in {"start", "read"}
           /\ ~threads[last.tid].exists
           /\ msgs[last.tid] = <<>>
           /\ StoreAsBefore

\* sendPhoto has returned from the missing thread, after its read.
C15_Witness ==
    /\ JustReturned
    /\ last.outcome = "noop"
    /\ last.op = "sendPhoto"
    /\ last.at = "read"
    /\ ~threads[T1].exists
    /\ msgs[T1] = <<>>

\* C20: withdrawMessage on a message of the log, awaited to completion,
\* leaves the message with withdrawn = true, text "" and photoUrl "", the
\* thread's lastMessage "Message withdrawn", and every unread counter, the
\* length of the log and every other message as they were; the sender of the
\* message and its age play no part.
C20_WithdrawPost ==
    (/\ JustReturned
     /\ last.op = "withdrawMessage"
     /\ last.arg.messageId <= Len(last.pre.msgs[last.tid])
     /\ last.outcome = "ok")
    => LET m == last.arg.messageId
           log == msgs[last.tid]
           before == last.pre.msgs[last.tid]
       IN  /\ log[m].withdrawn = TRUE
           /\ log[m].text = EmptyStr
           /\ log[m].photoUrl = EmptyStr
           /\ log[m].senderId = before[m].senderId
           /\ log[m].createdAt = before[m].createdAt
           /\ threads[last.tid].lastMessage = WithdrawnPreview
           /\ threads[last.tid].unread = last.pre.threads[last.tid].unread
           /\ Len(log) = Len(before)
           /\ \A i \in 1..Len(log) : i /= m => log[i] = before[i]
           /\ \A t \in ThreadIds \ {last.tid} : msgs[t] = last.pre.msgs[t]

\* The older of two messages, a photo the recipient has not read, is
\* withdrawn after the newer one was sent.
C20_Witness ==
    /\ JustReturned
    /\ last.op = "withdrawMessage"
    /\ last.outcome = "ok"
    /\ last.arg.messageId = 1
    /\ Len(msgs[T1]) = 2
    /\ last.pre.msgs[T1][1].photoUrl = DurableUrl(<<"file://p.jpg">>)
    /\ msgs[T1][1].withdrawn
    /\ msgs[T1][2].text = <<"hi">>
    /\ msgs[T1][1].createdAt + 2 <= now
    /\ \E u \in Participants : threads[T1].unread[u] = 2

\* C16: an operation aimed at a message that does not exist returns as a
\* no-op: withdrawMessage with an id that is not in the log raises no error
\* to its caller, creates no document and changes none (the thread is not
\* updated).
C16_MissingTargetIsNoop ==
    (/\ JustReturned
     /\ last.op = "withdrawMessage"
     /\ last.arg.messageId > Len(last.pre.msgs[last.tid]))
    => /\ last.outcome /= "error"
       /\ StoreAsBefore

\* C17: sendPhoto appends the photo message only after the upload has
\* returned its URL. A sendPhoto that returned from its upload step threw
\* to its caller, and the logs and the threads (lastMessage, timestamp,
\* unread counters) are as the call found them; and a step of a sendPhoto
\* call that changes a log appends one message whose photoUrl is the
\* non-empty URL the upload returned.
C17_PhotoAfterUpload ==
    /\ [](  (JustReturned /\ last.op = "sendPhoto" /\ last.at = "upload")
                => (last.outcome = "error" /\ StoreAsBefore)  )
    /\ [][ \A id \in DOMAIN calls :
             (calls[id].op = "sendPhoto" /\ msgs' /= msgs)
                => LET c == calls[id]
                       log == msgs'[c.tid]
                   IN  /\ c.pc = "add"
                       /\ Truthy(c.arg.url)
                       /\ Len(log) = Len(msgs[c.tid]) + 1
                       /\ log[Len(log)].photoUrl = c.arg.url
                       /\ SubSeq(log, 1, Len(log) - 1) = msgs[c.tid] ]_vars

\* An upload fails after an earlier photo went through.
C17_Witness ==
    /\ JustReturned
    /\ last.op = "sendPhoto"
    /\ last.at = "upload"
    /\ last.outcome = "error"
    /\ Len(msgs[T1]) = 1
    /\ Truthy(msgs[T1][1].photoUrl)
    /\ threads[T1].lastMessage = PhotoPreview

\* C18: a sendOffer on an existing thread, awaited with nothing interleaved,
\* does not return early when a recipient is found, and when it completes
\* the log is one message longer, the new message has type "offer", the
\* amount, offerStatus "pending" and withdrawn = false, lastMessage is
\* "Offer: $<amount>", the recipient's unread is one higher and the sender's
\* is unchanged.
C18_SendOfferPost ==
    (/\ JustReturned
     /\ last.op = "sendOffer"
     /\ last.pre.threads[last.tid].exists)
    => /\ last.outcome \in {"ok", "error"}
       /\ last.outcome = "ok" =>
            LET before == last.pre.threads[last.tid]
                after == threads[last.tid]
                log == msgs[last.tid]
                recipient == IF last.arg.recipientId = EmptyStr
                             THEN CHOOSE p \in Participants : p /= last.user
                             ELSE last.arg.recipientId
            IN  /\ Len(log) = Len(last.pre.msgs[last.tid]) + 1
                /\ SubSeq(log, 1, Len(log) - 1) = last.pre.msgs[last.tid]
                /\ log[Len(log)].senderId = last.user
                /\ log[Len(log)].type = "offer"
                /\ log[Len(log)].amount = last.arg.amount
                /\ log[Len(log)].offerStatus = "pending"
                /\ log[Len(log)].withdrawn = FALSE
                /\ after.lastMessage = <<"Offer: $", ToString(last.arg.amount)>>
                /\ after.unread[recipient] = before.unread[recipient] + 1
                /\ after.unread[last.user] = before.unread[last.user]

\* An offer to a recipient who has an unread message already.
C18_Witness ==
    /\ JustReturned
    /\ last.op = "sendOffer"
    /\ last.outcome = "ok"
    /\ \E p \in Participants :
          /\ p /= last.user
          /\ last.pre.threads[last.tid].unread[p] > 0
          /\ threads[last.tid].unread[p] = last.pre.threads[last.tid].unread[p] + 1
    /\ msgs[T1][Len(msgs[T1])].offerStatus = "pending"

\* C19: an offer with a non-positive amount is a silent no-op: a sendOffer
\* with amount <= 0 that has returned, no store request of its own having
\* failed, returned early, appended no message and left the threads
\* (lastMessage, timestamp, unread counters) as it found them.
C19_NonPositiveOfferIsNoop ==
    (JustReturned /\ last.op = "sendOffer" /\ last.arg.amount <= 0
                  /\ last.outcome /= "error")
        => (last.outcome = "noop" /\ StoreAsBefore)

\* A withdrawn message holds no content.
Cleared(m) == m.withdrawn /\ m.text = EmptyStr /\ m.photoUrl = EmptyStr

\* C21: withdrawal is irreversible and destructive: in every reachable state
\* a message with withdrawn = true has text "" and photoUrl "", and every
\* step of every operation (sends, reactions, accept, decline, further
\* withdrawals) leaves a withdrawn message in the log, withdrawn and empty.
C21_WithdrawnStaysCleared ==
    /\ [](\A t \in ThreadIds : \A i \in 1..Len(msgs[t]) :
             msgs[t][i].withdrawn => Cleared(msgs[t][i]))
    /\ [][\A t \in ThreadIds : \A i \in 1..Len(msgs[t]) :
             msgs[t][i].withdrawn => (i <= Len(msgs'[t]) /\ Cleared(msgs'[t][i]))]_vars

\* An offer the seller's screen showed withdrawn and pending has been
\* accepted since.
C21_Witness ==
    /\ Len(msgs[T1]) >= 1
    /\ msgs[T1][1].withdrawn
    /\ msgs[T1][1].offerStatus = "accepted"
    /\ screen.mounted
    /\ Len(screen.messages) >= 1
    /\ screen.messages[1].withdrawn
    /\ screen.messages[1].offerStatus = "pending"

\* C22: declineOffer(T, m) changes only message m's offerStatus, to
\* "declined": the step in which a Decline press runs declineOffer leaves
\* the threads (lastMessage, timestamp, acceptedOffer, unread counters), the
\* length of the log, every other message and every other field of m as
\* they were.
C22_DeclineChangesStatusOnly ==
    [][\A id \in DOMAIN calls' :
         (id \notin DOMAIN calls /\ calls'[id].op = "declinePress")
            => LET t == calls'[id].tid
                   m == calls'[id].arg.messageId
               IN  /\ threads' = threads
                   /\ listings' = listings
                   /\ \A u \in ThreadIds \ {t} : msgs'[u] = msgs[u]
                   /\ Len(msgs'[t]) = Len(msgs[t])
                   /\ \A i \in 1..Len(msgs[t]) : i /= m => msgs'[t][i] = msgs[t][i]
                   /\ msgs'[t][m].offerStatus = "declined"
                   /\ \A f \in (DOMAIN msgs[t][m]) \ {"offerStatus"} :
                         msgs'[t][m][f] = msgs[t][m][f]
                   /\ DOMAIN msgs'[t][m] = DOMAIN msgs[t][m]]_vars

\* declineOffer has run on the one offer of the log, the "Offer declined"
\* message is still to be sent, and the thread shows the offer's preview and
\* the seller's unread count.
C22_Witness ==
    /\ \E id \in DOMAIN calls : calls[id].op = "declinePress" /\ calls[id].pc = "declineSend"
    /\ Len(msgs[T1]) = 1
    /\ msgs[T1][1].offerStatus = "declined"
    /\ threads[T1].lastMessage = <<"Offer: $", "50">>
    /\ threads[T1].unread[Seller] = 1

\* The emission of the thread list that a step delivers, if it delivers one.
Emission ==
    /\ detector'.threadsSub
    /\ detector'.emitted /= "none"
    /\ (detector'.emitted /= detector.emitted \/ detector'.delivered /= detector.delivered)

\* C23: in every emission of subscribeToThreads a thread whose stored
\* lastMessage is "Message withdrawn" is delivered with preview "" exactly
\* when every unread counter of the thread is 0, and with the literal
\* "Message withdrawn" when a counter is above 0; every other stored
\* lastMessage is delivered as it is, and the emission leaves the stored
\* thread documents as they are.
C23_PreviewSanitized ==
    [][Emission =>
         /\ threads' = threads
         /\ \A t \in DOMAIN detector'.delivered :
              LET stored == threads[t].lastMessage
                  allRead == \A u \in DOMAIN threads[t].unread : threads[t].unread[u] = 0
                  shown == detector'.delivered[t].lastMessage
              IN  /\ (stored = <<"Message withdrawn">> /\ allRead) => shown = EmptyStr
                  /\ (stored = <<"Message withdrawn">> /\ ~allRead) => shown = <<"Message withdrawn">>
                  /\ stored /= <<"Message withdrawn">> => shown = stored]_vars

\* After an earlier emission, the list shows an empty preview for the
\* thread whose one message was withdrawn and whose counters are all 0.
C23_Witness ==
    /\ detector.threadsSub
    /\ detector.emitted = "more"
    /\ T1 \in DOMAIN detector.delivered
    /\ detector.delivered[T1].lastMessage = EmptyStr
    /\ threads[T1].lastMessage = <<"Message withdrawn">>
    /\ Len(msgs[T1]) = 1
    /\ msgs[T1][1].withdrawn

\* C24: in every reachable state the unread map of every existing thread has
\* an entry for the thread's buyerId and one for its sellerId, and every
\* entry is a non-negative integer, whatever getOrCreateThread, send,
\* clearUnread, withdraw, accept and decline operations have run and however
\* they interleaved.
C24_UnreadEntriesKept ==
    \A t \in ThreadIds :
        threads[t].exists =>
            /\ threads[t].buyerId \in DOMAIN threads[t].unread
            /\ threads[t].sellerId \in DOMAIN threads[t].unread
            /\ \A u \in DOMAIN threads[t].unread : threads[t].unread[u] \in Nat

\* The one message of the thread was withdrawn while its recipient had it
\* unread.
C24_Witness ==
    /\ threads[T1].exists
    /\ calls = <<>>
    /\ Len(msgs[T1]) = 1
    /\ msgs[T1][1].withdrawn
    /\ threads[T1].lastMessage = <<"Message withdrawn">>
    /\ \E u \in Participants :
          /\ threads[T1].unread[u] = 1
          /\ \A o \in Participants \ {u} : threads[T1].unread[o] = 0

\* The preview an append writes for a message of the log.
PreviewShown(m) ==
    IF m.type = "offer" THEN <<"Offer: $", ToString(m.amount)>>
    ELSE IF m.photoUrl /= MissingStr THEN <<"[Photo]">>
    ELSE m.text

\* C25: lastMessage tracks the tail of the log: with no call in flight, and
\* every append's thread update written, the thread's lastMessage is the
\* preview of the message with the greatest createdAt (the last of the log),
\* however the store steps of the appends interleaved.
C25_LastMessageIsTail ==
    \A t \in ThreadIds :
        (/\ calls = <<>>
         /\ Len(msgs[t]) > 0
         /\ \A i \in 1..Len(msgs[t]) : <<t, i>> \in applied
         /\ \A i \in 1..Len(msgs[t]) : msgs[t][i].createdAt <= msgs[t][Len(msgs[t])].createdAt)
            => threads[t].lastMessage = PreviewShown(msgs[t][Len(msgs[t])])

\* C26 as stated: canWithdrawMessage(createdAt) is true iff createdAt is
\* present and now - createdAt <= 180000 ms, for every integer millisecond
\* value of createdAt and of now.
C26_WithdrawWindowAsStated ==
    (probe.fn = "canWithdraw" /\ probe.done)
        => (probe.result <=> (/\ probe.createdAt.kind /= "missing"
                              /\ probe.dateNow - probe.createdAt.ms <= 180000))

\* C26: canWithdrawMessage(createdAt) is true iff createdAt is present, is
\* not the plain number 0, and now - createdAt <= 180000 ms, for every
\* millisecond value of createdAt, given as a Timestamp or as a number, and
\* of now: true at a difference of 179999 and of 180000, false at 180001,
\* false when createdAt is missing.
C26_WithdrawWindow ==
    (probe.fn = "canWithdraw" /\ probe.done)
        => (probe.result <=> (/\ probe.createdAt.kind /= "missing"
                              /\ probe.createdAt /= [kind |-> "number", ms |-> 0]
                              /\ probe.dateNow - probe.createdAt.ms <= 180000))

\* A Timestamp of 0 ms, asked about exactly 180000 ms later.
C26_Witness ==
    /\ probe.fn = "canWithdraw"
    /\ probe.done
    /\ probe.createdAt = [kind |-> "timestamp", ms |-> 0]
    /\ probe.dateNow = 180000
    /\ probe.result

\* C27: toggleReaction and removeReaction change only reactions[userId] of
\* the one target message: when the call has returned, the other users'
\* entries on that message, every other field of it (text, photoUrl,
\* withdrawn, offerStatus), every other message and the thread documents
\* are as the call found them, and the stored entry is the value this call,
\* the last to write, wrote: the reaction for toggleReaction, null for
\* removeReaction.
C27_ReactionWritesOneEntry ==
    (/\ JustReturned
     /\ last.op \in {"toggleReaction", "removeReaction"}
     /\ last.outcome = "ok")
    => LET t == last.tid
           m == last.arg.messageId
           before == last.pre.msgs[t]
           log == msgs[t]
       IN  /\ threads = last.pre.threads
           /\ listings = last.pre.listings
           /\ \A u \in ThreadIds \ {t} : msgs[u] = last.pre.msgs[u]
           /\ Len(log) = Len(before)
           /\ \A i \in 1..Len(log) : i /= m => log[i] = before[i]
           /\ DOMAIN log[m] = DOMAIN before[m]
           /\ \A f \in (DOMAIN log[m]) \ {"reactions"} : log[m][f] = before[m][f]
           /\ DOMAIN log[m].reactions = (DOMAIN before[m].reactions) \cup {last.user}
           /\ \A u \in (DOMAIN before[m].reactions) \ {last.user} :
                 log[m].reactions[u] = before[m].reactions[u]
           /\ log[m].reactions[last.user] =
                 (IF last.op = "toggleReaction" THEN last.arg.reaction ELSE "null")

\* A user who had reacted to the message has written another reaction over
\* the first.
C27_Witness ==
    /\ JustReturned
    /\ last.op = "toggleReaction"
    /\ last.outcome = "ok"
    /\ last.user \in DOMAIN last.pre.msgs[T1][last.arg.messageId].reactions
    /\ last.pre.msgs[T1][last.arg.messageId].reactions[last.user] = "like"
    /\ msgs[T1][last.arg.messageId].reactions[last.user] = "laugh"

\* C28: a failure of a best-effort side effect is not propagated. A
\* getOrCreateThread whose increment of the listing's messagesCount failed
\* has returned the thread id without an error and the thread document it
\* created is in place; a signUpUW or signInUW whose login-activity logging
\* failed has returned the authenticated user.
C28_BestEffortNotPropagated ==
    /\ (/\ JustReturned
        /\ last.op = "getOrCreateThread"
        /\ last.at = "listing"
        /\ listings = last.pre.listings)
       => /\ last.outcome = "ok"
          /\ ~last.pre.threads[last.tid].exists
          /\ threads[last.tid].exists
          /\ threads[last.tid].threadId = last.tid
          /\ threads[last.tid].itemName = last.arg.itemName
    /\ (probe.fn = "auth" /\ probe.logged = "failed")
       => /\ probe.pc = "returned"
          /\ probe.user = Buyer2

\* The thread was created with the listing's count left behind, and the
\* sign-up returned the user with no login activity logged.
C28_Witness ==
    /\ JustReturned
    /\ last.op = "getOrCreateThread"
    /\ last.at = "listing"
    /\ last.outcome = "ok"
    /\ listings = 0
    /\ threads[T1].exists
    /\ probe.fn = "auth"
    /\ probe.op = "signUpUW"
    /\ probe.logged = "failed"
    /\ probe.pc = "returned"

\* C29: after the detector has processed an emission that follows
\* hydration, the baseline of every thread of the emission is the thread's
\* unread count for the user in that emission, whether or not a toast was
\* shown for it (the count may have gone down, the preview may be empty, the
\* toast may have been suppressed); the baselines of the threads that are
\* not in the emission are as they were.
C29_BaselineFollowsEmission ==
    [][(Emission /\ detector.hydrated) =>
         /\ \A t \in DOMAIN detector'.delivered :
               /\ t \in DOMAIN detector'.previousUnread
               /\ detector'.previousUnread[t] =
                     UnreadIn(detector'.delivered, t, detector.threadsUser)
         /\ \A k \in (DOMAIN detector.previousUnread) \ (DOMAIN detector'.delivered) :
               /\ k \in DOMAIN detector'.previousUnread
               /\ detector'.previousUnread[k] = detector.previousUnread[k]]_vars

\* The user has read the thread since a toast was shown for it: the
\* baseline has come down to 0 with the count.
C29_Witness ==
    /\ detector.threadsSub
    /\ detector.hydrated
    /\ detector.emitted = "more"
    /\ Len(toasts) = 1
    /\ T1 \in DOMAIN detector.delivered
    /\ detector.delivered[T1].unread[detector.threadsUser] = 0
    /\ detector.previousUnread[T1] = 0
    /\ Len(msgs[T1]) >= 1

\* C30: in every reachable state of the detector at most one threads
\* listener is attached, the one whose handle the detector holds, and none
\* is attached when the detector has seen the preference disabled, when
\* nobody is signed in, or after the teardown; and a snapshot of the user
\* document with notifications enabled that arrives while a listener is
\* attached attaches no second one and leaves the baseline, the hydration
\* flag and the listener as they are.
C30_OneThreadsListener ==
    /\ [](/\ detector.listeners \in {0, 1}
          /\ detector.threadsSub <=> detector.listeners = 1
          /\ detector.user = EmptyStr => detector.listeners = 0
          /\ ~detector.userSub => detector.listeners = 0
          /\ (detector.userSub /\ ~detector.prefPending /\ prefs[detector.user] = "false")
                => detector.listeners = 0)
    /\ [][(/\ detector.threadsSub
           /\ detector.prefPending /\ ~detector'.prefPending
           /\ detector'.userSub
           /\ prefs[detector.user] /= "false")
          => /\ detector'.listeners = 1
             /\ detector'.threadsSub
             /\ detector'.threadsUser = detector.threadsUser
             /\ detector'.previousUnread = detector.previousUnread
             /\ detector'.hydrated = detector.hydrated
             /\ detector'.emitted = detector.emitted
             /\ detector'.delivered = detector.delivered]_vars

\* The listener that showed a toast is still the one attached, never
\* cancelled, after a later snapshot of the user document with
\* notifications enabled.
C30_Witness ==
    /\ detector.threadsSub
    /\ detector.listeners = 1
    /\ detector.why = "never"
    /\ ~detector.prefPending
    /\ detector.hydrated
    /\ Len(toasts) >= 1
    /\ detector.previousUnread[T1] >= 1
    /\ detector.lastEnabled > threads[T1].timestamp


\* C31: through ChatScreen a message is withdrawn only if the screen's user
\* sent it and it is within the 3-minute window at the moment
\* withdrawMessage is applied to it.
C31_WithdrawnInsideWindow ==
    [][\A i \in 1..Len(msgs[T1]) :
          (/\ i <= Len(msgs'[T1])
           /\ ~msgs[T1][i].withdrawn
           /\ msgs'[T1][i].withdrawn)
          => /\ msgs[T1][i].senderId = screen.user
             /\ canWithdrawMessage(Timestamp(msgs[T1][i].createdAt * TickMs), now * TickMs)]_vars


\* C32: a toast fires only in an emission that follows hydration, to a
\* signed-in user whose preference the detector has not seen disabled, and
\* only for threads whose unread count for that user is above the baseline:
\* an emission in which no thread's count is above its baseline (the preview
\* or the timestamp changed, the counter did not go up) fires no toast.
C32_ToastOnlyOnIncrease ==
    [][LET raised == { t \in DOMAIN detector'.delivered :
                         UnreadIn(detector'.delivered, t, detector.user) > BaselineOf(detector, t) }
       IN  /\ (toasts' /= toasts)
              => /\ Emission
                 /\ detector.hydrated
                 /\ detector.user /= EmptyStr
                 /\ detector.threadsUser = detector.user
                 /\ ~(~detector.prefPending /\ ~messagesEnabled(prefs[detector.user]))
                 /\ SubSeq(toasts', 1, Len(toasts)) = toasts
                 /\ Len(toasts') - Len(toasts) <= Cardinality(raised)
           /\ (Emission /\ raised = {}) => toasts' = toasts]_vars


\* The seller signed in with the buyer's offer unread, opened the
\* conversation and accepted the offer: the emission that followed brought
\* the acceptance as preview, and no toast has been shown.
C32_Witness ==
    /\ detector.threadsSub
    /\ detector.hydrated
    /\ detector.emitted = "more"
    /\ T1 \in DOMAIN detector.delivered
    /\ detector.delivered[T1].lastMessage = AcceptedPreview(50)
    /\ threads[T1].acceptedOffer.set
    /\ toasts = <<>>


\* C33: a thread that is in an emission after hydration and not in the
\* baseline is compared against 0: with an unread count of at least 1 for
\* the user and a non-empty preview the emission fires a toast with that
\* preview, and with an unread count of 0 it fires none for the thread and
\* the thread's baseline becomes 0.
C33_NewThreadAgainstZero ==
    [][(Emission /\ detector.hydrated) =>
         \A t \in (DOMAIN detector'.delivered) \ (DOMAIN detector.previousUnread) :
            LET thread == detector'.delivered[t]
                unread == UnreadIn(detector'.delivered, t, detector.user)
                shown == { i \in (Len(toasts) + 1)..Len(toasts') :
                             toasts'[i].message = thread.lastMessage }
            IN  /\ (unread >= 1 /\ thread.lastMessage /= EmptyStr) => shown /= {}
                /\ unread = 0 => /\ shown = {}
                                 /\ t \in DOMAIN detector'.previousUnread
                                 /\ detector'.previousUnread[t] = 0]_vars

=============================================================================
